---------------------------- MODULE Spec2Model ----------------------------
(***************************************************************************)
(* The tree-walking evaluator of the `exp` expression toolkit              *)
(* (src/src/eval.ts): evaluateAst / evalExpr as a small-step machine       *)
(* with an explicit continuation stack, the runtime value model, the       *)
(* environment validation and the member-access policy.                    *)
(*                                                                         *)
(* Conventions.  A runtime string is a sequence of one-character strings   *)
(* (<<"a","b">>); identifier and property names, operator tokens and       *)
(* error messages are TLA+ strings.  A JS number is a record with a kind   *)
(* ("fin", "nan", "inf", "ninf") and, when finite, a normalised rational   *)
(* n/d; the sign of zero is not represented.                               *)
(***************************************************************************)
EXTENDS Integers, Sequences, FiniteSets, TLC

(***************************************************************************)
(* Bounds of the explored inputs.                                          *)
(***************************************************************************)
\* largest explicit maxSteps option that is explored (0..MaxBudget)
MaxBudget == 4
\* largest number of probe arguments / probe array elements in a generated AST
MaxArgs == 2

(***************************************************************************)
(* Runtime values (eval.ts:4-18) and the foreign shapes a host can pass.   *)
(***************************************************************************)
Undefined == [t |-> "undefined"]
Null == [t |-> "null"]
Bool(b) == [t |-> "boolean", b |-> b]
Fin(n, d) == [t |-> "number", k |-> "fin", n |-> n, d |-> d]
Num(n) == Fin(n, 1)
NaN == [t |-> "number", k |-> "nan", n |-> 0, d |-> 1]
Infinity == [t |-> "number", k |-> "inf", n |-> 0, d |-> 1]
NegInfinity == [t |-> "number", k |-> "ninf", n |-> 0, d |-> 1]
Str(s) == [t |-> "string", s |-> s]
\* an array: `id` is its reference identity, items its slots
Arr(id, items) == [t |-> "array", id |-> id, items |-> items]
\* an object: proto is "Object" (plain), "null" (proto-null) or a class name
Obj(id, proto, props) == [t |-> "object", id |-> id, proto |-> proto, props |-> props]
\* one own enumerable property of an object, in insertion order
Prop(k, v) == [k |-> k, v |-> v]
Fn(name) == [t |-> "function", name |-> name]
\* an accessor property slot: reading it runs the getter, which returns
\* `ret` or throws Error("getter ran")
Accessor(throws, ret) == [t |-> "accessor", throws |-> throws, ret |-> ret]

\* names every object with prototype Object.prototype inherits
ObjectPrototypeNames == {"toString", "valueOf", "hasOwnProperty", "constructor", "__proto__"}

Abs(x) == IF x < 0 THEN -x ELSE x

RECURSIVE Gcd(_, _)
Gcd(a, b) == IF b = 0 THEN a ELSE Gcd(b, a % b)

\* the finite number p/q (q # 0) in lowest terms with a positive denominator
Rat(p, q) ==
    LET g == Gcd(Abs(p), Abs(q))
        s == IF q < 0 THEN -1 ELSE 1
    IN  Fin(s * (p \div g), Abs(q) \div g)

\* sign of a non-NaN number: -1, 0 or 1
Sign(x) ==
    CASE x.k = "inf" -> 1
      [] x.k = "ninf" -> -1
      [] OTHER -> IF x.n > 0 THEN 1 ELSE IF x.n < 0 THEN -1 ELSE 0

SignedInf(s) == IF s > 0 THEN Infinity ELSE IF s < 0 THEN NegInfinity ELSE NaN

IsInf(x) == x.k \in {"inf", "ninf"}

NumNeg(x) ==
    CASE x.k = "nan" -> NaN
      [] x.k = "inf" -> NegInfinity
      [] x.k = "ninf" -> Infinity
      [] OTHER -> Fin(-x.n, x.d)

NumAdd(a, b) ==
    CASE a.k = "nan" \/ b.k = "nan" -> NaN
      [] IsInf(a) /\ IsInf(b) -> IF a.k = b.k THEN a ELSE NaN
      [] IsInf(a) -> a
      [] IsInf(b) -> b
      [] OTHER -> Rat(a.n * b.d + b.n * a.d, a.d * b.d)

NumSub(a, b) == NumAdd(a, NumNeg(b))

NumMul(a, b) ==
    CASE a.k = "nan" \/ b.k = "nan" -> NaN
      [] IsInf(a) \/ IsInf(b) -> SignedInf(Sign(a) * Sign(b))
      [] OTHER -> Rat(a.n * b.n, a.d * b.d)

NumDiv(a, b) ==
    CASE a.k = "nan" \/ b.k = "nan" -> NaN
      [] IsInf(a) /\ IsInf(b) -> NaN
      [] IsInf(a) -> IF Sign(b) < 0 THEN NumNeg(a) ELSE a
      [] IsInf(b) -> Num(0)
      [] b.n = 0 -> SignedInf(Sign(a))
      [] OTHER -> Rat(a.n * b.d, a.d * b.n)

\* the integer part of p/q, rounded toward zero (q > 0)
TruncDiv(p, q) == IF p >= 0 THEN p \div q ELSE -((-p) \div q)

NumMod(a, b) ==
    CASE a.k = "nan" \/ b.k = "nan" -> NaN
      [] IsInf(a) -> NaN
      [] IsInf(b) -> a
      [] b.n = 0 -> NaN
      [] OTHER ->
           LET q == Rat(a.n * b.d, a.d * b.n)
               tq == TruncDiv(q.n, q.d)
           IN  Rat(a.n * b.d - tq * b.n * a.d, a.d * b.d)

NumLt(a, b) ==
    CASE a.k = "nan" \/ b.k = "nan" -> FALSE
      [] a.k = "ninf" -> b.k # "ninf"
      [] a.k = "inf" -> FALSE
      [] b.k = "inf" -> TRUE
      [] b.k = "ninf" -> FALSE
      [] OTHER -> a.n * b.d < b.n * a.d

\* JS `==` / `===` on two numbers
NumEq(a, b) == a.k # "nan" /\ b.k # "nan" /\ a = b

NumLe(a, b) == NumLt(a, b) \/ NumEq(a, b)


(***************************************************************************)
(* Coercions (eval.ts:138-195).  An operation that can throw returns       *)
(* [ok |-> FALSE, msg |-> the Error's message].                            *)
(***************************************************************************)
Digits == <<"0", "1", "2", "3", "4", "5", "6", "7", "8", "9">>
IsDigit(c) == \E i \in 1..10 : Digits[i] = c
DigitVal(c) == (CHOOSE i \in 1..10 : Digits[i] = c) - 1
IsSpace(c) == c \in {" ", "\t", "\n"}

RECURSIVE NatToChars(_)
NatToChars(n) ==
    IF n < 10 THEN <<Digits[n + 1]>>
    ELSE NatToChars(n \div 10) \o <<Digits[(n % 10) + 1]>>

\* the decimal digits of r/d (0 <= r < d), for a terminating expansion
RECURSIVE FracChars(_, _, _)
FracChars(r, d, fuel) ==
    IF r = 0 \/ fuel = 0 THEN <<>>
    ELSE <<Digits[((r * 10) \div d) + 1]>> \o FracChars((r * 10) % d, d, fuel - 1)

\* String(x) for a number x
NumberToString(x) ==
    CASE x.k = "nan" -> <<"N", "a", "N">>
      [] x.k = "inf" -> <<"I", "n", "f", "i", "n", "i", "t", "y">>
      [] x.k = "ninf" -> <<"-", "I", "n", "f", "i", "n", "i", "t", "y">>
      [] OTHER ->
           LET a == Abs(x.n)
               sign == IF x.n < 0 THEN <<"-">> ELSE <<>>
               frac == FracChars(a % x.d, x.d, 17)
           IN  sign \o NatToChars(a \div x.d)
                    \o (IF frac = <<>> THEN <<>> ELSE <<".">> \o frac)

RECURSIVE TrimLeft(_)
TrimLeft(s) == IF s # <<>> /\ IsSpace(Head(s)) THEN TrimLeft(Tail(s)) ELSE s

RECURSIVE TrimRight(_)
TrimRight(s) ==
    IF s # <<>> /\ IsSpace(s[Len(s)]) THEN TrimRight(SubSeq(s, 1, Len(s) - 1)) ELSE s

\* the value of a digit string read as an integer (most significant first)
RECURSIVE DigitsToNat(_)
DigitsToNat(s) ==
    IF s = <<>> THEN 0 ELSE DigitsToNat(SubSeq(s, 1, Len(s) - 1)) * 10 + DigitVal(s[Len(s)])

RECURSIVE Pow10(_)
Pow10(k) == IF k = 0 THEN 1 ELSE 10 * Pow10(k - 1)

AllDigits(s) == \A i \in 1..Len(s) : IsDigit(s[i])

\* an unsigned decimal literal `ddd`, `ddd.ddd`, `.ddd` or `ddd.`
UnsignedToNumber(s) ==
    LET dots == {i \in 1..Len(s) : s[i] = "."}
    IN  IF dots = {} THEN
            IF s # <<>> /\ AllDigits(s) THEN Num(DigitsToNat(s)) ELSE NaN
        ELSE
            LET p == CHOOSE i \in dots : \A j \in dots : i <= j
                ip == SubSeq(s, 1, p - 1)
                fp == SubSeq(s, p + 1, Len(s))
            IN  IF AllDigits(ip) /\ AllDigits(fp) /\ Len(ip) + Len(fp) > 0
                THEN Rat(DigitsToNat(ip) * Pow10(Len(fp)) + DigitsToNat(fp), Pow10(Len(fp)))
                ELSE NaN

\* Number(s) for a string s: surrounding white space is ignored, the empty
\* string is 0, a signed decimal literal or Infinity is its value, anything
\* else is NaN (exponent and 0x/0o/0b forms are outside the explored strings)
StringToNumber(s) ==
    LET t == TrimRight(TrimLeft(s))
        inf == <<"I", "n", "f", "i", "n", "i", "t", "y">>
    IN  IF t = <<>> THEN Num(0)
        ELSE IF Head(t) \in {"+", "-"} THEN
            LET u == Tail(t)
                m == IF u = inf THEN Infinity ELSE UnsignedToNumber(u)
            IN  IF Head(t) = "-" THEN NumNeg(m) ELSE m
        ELSE IF t = inf THEN Infinity ELSE UnsignedToNumber(t)

Ok(v) == [ok |-> TRUE, v |-> v, msg |-> ""]
Throw(msg) == [ok |-> FALSE, v |-> Undefined, msg |-> msg]

\* !!v
isTruthy(v) ==
    CASE v.t = "undefined" -> FALSE
      [] v.t = "null" -> FALSE
      [] v.t = "boolean" -> v.b
      [] v.t = "number" -> ~(v.k = "nan" \/ (v.k = "fin" /\ v.n = 0))
      [] v.t = "string" -> v.s # <<>>
      [] OTHER -> TRUE

\* typeof v !== "object" (functions count as primitive here, as in the source)
isPrimitive(v) == v.t \in {"undefined", "null", "boolean", "number", "string", "function"}

\* Number(v) on anything that is not a primitive: NaN instead of the throw
toNumberLenient(v) ==
    CASE v.t = "number" -> Ok(v)
      [] v.t = "boolean" -> Ok(IF v.b THEN Num(1) ELSE Num(0))
      [] v.t = "null" -> Ok(Num(0))
      [] v.t = "string" -> Ok(StringToNumber(v.s))
      [] OTHER -> Ok(NaN)

toNumber(v) ==
    CASE v.t = "number" -> Ok(v)
      [] v.t = "boolean" -> Ok(IF v.b THEN Num(1) ELSE Num(0))
      [] v.t = "null" -> Ok(Num(0))
      [] v.t = "undefined" -> Ok(NaN)
      [] v.t = "string" -> Ok(StringToNumber(v.s))
      [] OTHER -> Throw("expected primitive")

toString(v) ==
    CASE v.t = "string" -> Ok(v)
      [] v.t = "number" -> Ok(Str(NumberToString(v)))
      [] v.t = "boolean" -> Ok(Str(IF v.b THEN <<"t", "r", "u", "e">> ELSE <<"f", "a", "l", "s", "e">>))
      [] v.t = "null" -> Ok(Str(<<"n", "u", "l", "l">>))
      [] v.t = "undefined" -> Ok(Str(<<"u", "n", "d", "e", "f", "i", "n", "e", "d">>))
      [] OTHER -> Throw("expected primitive")

\* a === b
StrictEquals(a, b) ==
    /\ a.t = b.t
    /\ CASE a.t = "number" -> NumEq(a, b)
         [] a.t \in {"array", "object"} -> a.id = b.id
         [] OTHER -> a = b

\* ToPrimitive as `==` of the host language would apply it to an operand
ToPrimitive(v) ==
    CASE v.t = "array" /\ v.items = <<>> -> Str(<<>>)
      [] v.t \in {"array", "object"} -> Str(<<"o">>)
      [] OTHER -> v

\* the `==` of the host language: non-primitives go through ToPrimitive
RECURSIVE looseEqualCoercing(_, _)
looseEqualCoercing(a, b) ==
    IF StrictEquals(a, b) THEN TRUE
    ELSE IF a.t \in {"array", "object"} /\ b.t \in {"array", "object"} THEN FALSE
    ELSE IF a.t \in {"array", "object"} \/ b.t \in {"array", "object"}
    THEN looseEqualCoercing(ToPrimitive(a), ToPrimitive(b))
    ELSE IF a.t \in {"null", "undefined"} /\ b.t \in {"null", "undefined"} THEN TRUE
    ELSE IF a.t \in {"null", "undefined"} \/ b.t \in {"null", "undefined"} THEN FALSE
    ELSE IF a.t = "boolean" THEN looseEqualCoercing(toNumber(a).v, b)
    ELSE IF b.t = "boolean" THEN looseEqualCoercing(a, toNumber(b).v)
    ELSE IF a.t = "string" /\ b.t = "number" THEN NumEq(StringToNumber(a.s), b)
    ELSE IF a.t = "number" /\ b.t = "string" THEN NumEq(a, StringToNumber(b.s))
    ELSE StrictEquals(a, b)

\* booleans compared without the conversion to 0 / 1
looseEqualNoBoolean(a, b) ==
    IF StrictEquals(a, b) THEN TRUE
    ELSE IF ~isPrimitive(a) \/ ~isPrimitive(b) THEN FALSE
    ELSE IF a.t \in {"null", "undefined"} /\ b.t \in {"null", "undefined"} THEN TRUE
    ELSE IF a.t \in {"null", "undefined"} \/ b.t \in {"null", "undefined"} THEN FALSE
    ELSE IF a.t = "string" /\ b.t = "number" THEN NumEq(StringToNumber(a.s), b)
    ELSE IF a.t = "number" /\ b.t = "string" THEN NumEq(a, StringToNumber(b.s))
    ELSE StrictEquals(a, b)

\* a == b without ToPrimitive; toNumber is only ever applied to a boolean
RECURSIVE looseEqualSafe(_, _)
looseEqualSafe(a, b) ==
    IF StrictEquals(a, b) THEN TRUE
    ELSE IF ~isPrimitive(a) \/ ~isPrimitive(b) THEN FALSE
    ELSE IF a.t \in {"null", "undefined"} /\ b.t \in {"null", "undefined"} THEN TRUE
    ELSE IF a.t \in {"null", "undefined"} \/ b.t \in {"null", "undefined"} THEN FALSE
    ELSE IF a.t = "boolean" THEN looseEqualSafe(toNumber(a).v, b)
    ELSE IF b.t = "boolean" THEN looseEqualSafe(a, toNumber(b).v)
    ELSE IF a.t = "string" /\ b.t = "number" THEN NumEq(StringToNumber(a.s), b)
    ELSE IF a.t = "number" /\ b.t = "string" THEN NumEq(a, StringToNumber(b.s))
    ELSE StrictEquals(a, b)

(***************************************************************************)
(* Environment validation (eval.ts:86-136).  Reading a property slot with  *)
(* Object.entries, Object.values, Array.prototype.every or obj[prop] runs  *)
(* the getter of an accessor property; `gets` counts those runs.           *)
(***************************************************************************)
FORBIDDEN_MEMBERS == {"__proto__", "prototype", "constructor"}

isPlainObject(value) == value.t = "object" /\ value.proto \in {"Object", "null"}

\* the result of reading one property slot: [threw, v, gets]
ReadSlot(slot) ==
    IF slot.t = "accessor"
    THEN [threw |-> slot.throws, v |-> IF slot.throws THEN Undefined ELSE slot.ret, gets |-> 1]
    ELSE [threw |-> FALSE, v |-> slot, gets |-> 0]

\* Object.values / Object.entries: every slot is read, in order, before the
\* caller sees any of them; a throwing getter ends the reads
RECURSIVE ReadAll(_)
ReadAll(slots) ==
    IF slots = <<>> THEN [threw |-> FALSE, vs |-> <<>>, gets |-> 0]
    ELSE LET h == ReadSlot(Head(slots))
         IN  IF h.threw THEN [threw |-> TRUE, vs |-> <<>>, gets |-> h.gets]
             ELSE LET r == ReadAll(Tail(slots))
                  IN  [threw |-> r.threw, vs |-> <<h.v>> \o r.vs, gets |-> h.gets + r.gets]

PropSlots(props) == [i \in 1..Len(props) |-> props[i].v]

\* the check of the value itself, not of what it holds
isRuntimeValueShallow(value) ==
    [ok |-> value.t # "object" \/ isPlainObject(value), threw |-> FALSE, gets |-> 0]

\* isRuntimeValue: [ok, threw, gets]; `threw` is a getter's exception
RECURSIVE isRuntimeValue(_)
RECURSIVE EveryRuntimeValue(_)
RECURSIVE EverySlot(_)
isRuntimeValue(value) ==
    IF value.t \in {"undefined", "null", "boolean", "number", "string", "function"}
    THEN [ok |-> TRUE, threw |-> FALSE, gets |-> 0]
    ELSE IF value.t = "array" THEN EverySlot(value.items)
    ELSE IF isPlainObject(value) THEN
        LET r == ReadAll(PropSlots(value.props))
        IN  IF r.threw THEN [ok |-> FALSE, threw |-> TRUE, gets |-> r.gets]
            ELSE LET e == EveryRuntimeValue(r.vs)
                 IN  [ok |-> e.ok, threw |-> e.threw, gets |-> r.gets + e.gets]
    ELSE [ok |-> FALSE, threw |-> FALSE, gets |-> 0]

\* values.every(isRuntimeValue) over values already read
EveryRuntimeValue(vs) ==
    IF vs = <<>> THEN [ok |-> TRUE, threw |-> FALSE, gets |-> 0]
    ELSE LET h == isRuntimeValue(Head(vs))
         IN  IF h.threw \/ ~h.ok THEN h
             ELSE LET r == EveryRuntimeValue(Tail(vs))
                  IN  [ok |-> r.ok, threw |-> r.threw, gets |-> h.gets + r.gets]

\* array.every(isRuntimeValue): each element is read when its turn comes
EverySlot(slots) ==
    IF slots = <<>> THEN [ok |-> TRUE, threw |-> FALSE, gets |-> 0]
    ELSE LET s == ReadSlot(Head(slots))
         IN  IF s.threw THEN [ok |-> FALSE, threw |-> TRUE, gets |-> s.gets]
             ELSE LET h == isRuntimeValue(s.v)
                  IN  IF h.threw \/ ~h.ok
                      THEN [ok |-> h.ok, threw |-> h.threw, gets |-> s.gets + h.gets]
                      ELSE LET r == EverySlot(Tail(slots))
                           IN  [ok |-> r.ok, threw |-> r.threw,
                                gets |-> s.gets + h.gets + r.gets]

\* Object.hasOwn(obj, prop)
hasOwn(obj, prop) == \E i \in 1..Len(obj.props) : obj.props[i].k = prop

\* obj[prop] on an object: the own slot is read (running its getter), else
\* the prototype chain answers: [threw, v, gets]
JsGet(obj, prop) ==
    IF hasOwn(obj, prop)
    THEN ReadSlot(obj.props[CHOOSE i \in 1..Len(obj.props) : obj.props[i].k = prop].v)
    ELSE IF obj.proto = "Object" /\ prop \in ObjectPrototypeNames
    THEN [threw |-> FALSE, v |-> Fn("Object.prototype." \o prop), gets |-> 0]
    ELSE [threw |-> FALSE, v |-> Undefined, gets |-> 0]

EmptyEnv == Obj(0, "Object", <<>>)

\* the loop of normalizeEnv over the entries already read
RECURSIVE CheckEntries(_, _)
CheckEntries(props, vs) ==
    IF vs = <<>> THEN [ok |-> TRUE, threw |-> FALSE, message |-> "", gets |-> 0]
    ELSE LET h == isRuntimeValue(Head(vs))
         IN  IF h.threw THEN [ok |-> FALSE, threw |-> TRUE, message |-> "getter ran", gets |-> h.gets]
             ELSE IF ~h.ok
             THEN [ok |-> FALSE, threw |-> FALSE, gets |-> h.gets,
                   message |-> "env['" \o Head(props).k \o "'] is not a supported runtime value"]
             ELSE LET r == CheckEntries(Tail(props), Tail(vs))
                  IN  [ok |-> r.ok, threw |-> r.threw, message |-> r.message,
                       gets |-> h.gets + r.gets]

\* normalizeEnv: [ok, threw, message, env, gets]; threw means that an
\* exception left normalizeEnv (a getter threw while the entries were read)
normalizeEnv(env) ==
    IF env.t = "undefined"
    THEN [ok |-> TRUE, threw |-> FALSE, message |-> "", env |-> EmptyEnv, gets |-> 0]
    ELSE IF ~isPlainObject(env)
    THEN [ok |-> FALSE, threw |-> FALSE, env |-> EmptyEnv, gets |-> 0,
          message |-> "env must be a plain object (or proto-null object)"]
    ELSE LET r == ReadAll(PropSlots(env.props))
         IN  IF r.threw
             THEN [ok |-> FALSE, threw |-> TRUE, message |-> "getter ran",
                   env |-> EmptyEnv, gets |-> r.gets]
             ELSE LET c == CheckEntries(env.props, r.vs)
                  IN  [ok |-> c.ok, threw |-> c.threw, message |-> c.message,
                       env |-> IF c.ok THEN env ELSE EmptyEnv, gets |-> r.gets + c.gets]

\* the forbidden names tested after the array case
getMemberArrayFirst(obj, prop) ==
    IF obj.t = "array"
    THEN [ok |-> TRUE, msg |-> "", gets |-> 0,
          v |-> IF prop = "length" THEN Num(Len(obj.items)) ELSE Undefined]
    ELSE IF prop \in FORBIDDEN_MEMBERS
    THEN [ok |-> FALSE, v |-> Undefined, msg |-> "forbidden member access", gets |-> 0]
    ELSE IF isPlainObject(obj)
    THEN IF ~hasOwn(obj, prop)
         THEN [ok |-> TRUE, v |-> Undefined, msg |-> "", gets |-> 0]
         ELSE LET r == JsGet(obj, prop)
              IN  [ok |-> ~r.threw, v |-> r.v, gets |-> r.gets,
                   msg |-> IF r.threw THEN "getter ran" ELSE ""]
    ELSE [ok |-> TRUE, v |-> Undefined, msg |-> "", gets |-> 0]

\* the property read without the Object.hasOwn test
getMemberInherited(obj, prop) ==
    IF prop \in FORBIDDEN_MEMBERS
    THEN [ok |-> FALSE, v |-> Undefined, msg |-> "forbidden member access", gets |-> 0]
    ELSE IF obj.t = "array"
    THEN [ok |-> TRUE, msg |-> "", gets |-> 0,
          v |-> IF prop = "length" THEN Num(Len(obj.items)) ELSE Undefined]
    ELSE IF isPlainObject(obj)
    THEN LET r == JsGet(obj, prop)
         IN  [ok |-> ~r.threw, v |-> r.v, gets |-> r.gets,
              msg |-> IF r.threw THEN "getter ran" ELSE ""]
    ELSE [ok |-> TRUE, v |-> Undefined, msg |-> "", gets |-> 0]

\* getMember (eval.ts:211-227): [ok, v, msg, gets]
getMember(obj, prop) ==
    IF prop \in FORBIDDEN_MEMBERS
    THEN [ok |-> FALSE, v |-> Undefined, msg |-> "forbidden member access", gets |-> 0]
    ELSE IF obj.t = "array"
    THEN [ok |-> TRUE, msg |-> "", gets |-> 0,
          v |-> IF prop = "length" THEN Num(Len(obj.items)) ELSE Undefined]
    ELSE IF isPlainObject(obj)
    THEN IF ~hasOwn(obj, prop)
         THEN [ok |-> TRUE, v |-> Undefined, msg |-> "", gets |-> 0]
         ELSE LET r == JsGet(obj, prop)
              IN  [ok |-> ~r.threw, v |-> r.v, gets |-> r.gets,
                   msg |-> IF r.threw THEN "getter ran" ELSE ""]
    ELSE [ok |-> TRUE, v |-> Undefined, msg |-> "", gets |-> 0]

(***************************************************************************)
(* The AST (ast/mod.ts:7-59).  Trees are written without positions and     *)
(* laid out by Annot as the text they print to, every token one byte wide: *)
(* spans nest as the mk* constructors of ast/mod.ts nest them.             *)
(***************************************************************************)
\* the value of a literal node is held as the runtime value it evaluates to
NumberLit(v) == [kind |-> "number", value |-> v]
StringLit(v) == [kind |-> "string", value |-> Str(v)]
BooleanLit(v) == [kind |-> "boolean", value |-> Bool(v)]
NullLit == [kind |-> "null"]
Identifier(name) == [kind |-> "identifier", name |-> name]
ArrayLit(elements) == [kind |-> "array", elements |-> elements]
Unary(op, expr) == [kind |-> "unary", op |-> op, expr |-> expr]
Binary(op, left, right) == [kind |-> "binary", op |-> op, left |-> left, right |-> right]
Member(object, property) == [kind |-> "member", object |-> object, property |-> property]
Call(callee, args) == [kind |-> "call", callee |-> callee, args |-> args]
Conditional(test, consequent, alternate) ==
    [kind |-> "conditional", test |-> test, consequent |-> consequent, alternate |-> alternate]

Span(start, end) == [start |-> start, end |-> end]
\* the span of an error that has none (EvalError.span is optional)
NoSpan == [start |-> -1, end |-> -1]

WithSpan(node, span) == [f \in (DOMAIN node) \cup {"span"} |-> IF f = "span" THEN span ELSE node[f]]

RECURSIVE Annot(_, _)
RECURSIVE AnnotList(_, _)
Annot(e, start) ==
    CASE e.kind \in {"number", "string", "boolean", "null", "identifier"} ->
           WithSpan(e, Span(start, start + 1))
      [] e.kind = "array" ->
           LET els == AnnotList(e.elements, start + 1)
               last == IF els = <<>> THEN start + 1 ELSE els[Len(els)].span.end
           IN  [kind |-> "array", elements |-> els, span |-> Span(start, last + 1)]
      [] e.kind = "unary" ->
           LET x == Annot(e.expr, start + 1)
           IN  [kind |-> "unary", op |-> e.op, expr |-> x, span |-> Span(start, x.span.end)]
      [] e.kind = "binary" ->
           LET l == Annot(e.left, start)
               r == Annot(e.right, l.span.end + 1)
           IN  [kind |-> "binary", op |-> e.op, left |-> l, right |-> r,
                span |-> Span(l.span.start, r.span.end)]
      [] e.kind = "member" ->
           LET o == Annot(e.object, start)
           IN  [kind |-> "member", object |-> o, property |-> e.property,
                span |-> Span(o.span.start, o.span.end + 2)]
      [] e.kind = "call" ->
           LET c == Annot(e.callee, start)
               as == AnnotList(e.args, c.span.end + 1)
               last == IF as = <<>> THEN c.span.end + 1 ELSE as[Len(as)].span.end
           IN  [kind |-> "call", callee |-> c, args |-> as,
                span |-> Span(c.span.start, last + 1)]
      [] e.kind = "conditional" ->
           LET t == Annot(e.test, start)
               c == Annot(e.consequent, t.span.end + 1)
               a == Annot(e.alternate, c.span.end + 1)
           IN  [kind |-> "conditional", test |-> t, consequent |-> c, alternate |-> a,
                span |-> Span(t.span.start, a.span.end)]

AnnotList(es, start) ==
    IF es = <<>> THEN <<>>
    ELSE LET h == Annot(Head(es), start)
         IN  <<h>> \o AnnotList(Tail(es), h.span.end + 1)

\* the nodes of an annotated tree, as a set
RECURSIVE Nodes(_)
RECURSIVE NodesOfList(_)
Nodes(e) ==
    {e} \cup
    CASE e.kind = "array" -> NodesOfList(e.elements)
      [] e.kind = "unary" -> Nodes(e.expr)
      [] e.kind = "binary" -> Nodes(e.left) \cup Nodes(e.right)
      [] e.kind = "member" -> Nodes(e.object)
      [] e.kind = "call" -> Nodes(e.callee) \cup NodesOfList(e.args)
      [] e.kind = "conditional" ->
           Nodes(e.test) \cup Nodes(e.consequent) \cup Nodes(e.alternate)
      [] OTHER -> {}

NodesOfList(es) == IF es = <<>> THEN {} ELSE Nodes(Head(es)) \cup NodesOfList(Tail(es))

(***************************************************************************)
(* Host functions: the functions the tests put in the env                  *)
(* (tests/eval.test.ts:190-256), by name.  HostCall is fn.apply(receiver,  *)
(* args): [threw, msg, v].                                                 *)
(***************************************************************************)
Arg(args, i) == IF i <= Len(args) THEN args[i] ELSE Undefined

DateValue == Obj(90, "Date", <<>>)

HostCall(name, receiver, args) ==
    CASE name = "inc" ->
           [threw |-> FALSE, msg |-> "",
            v |-> IF Arg(args, 1).t = "number" THEN NumAdd(Arg(args, 1), Num(1)) ELSE Num(0)]
      [] name = "boom" -> [threw |-> TRUE, msg |-> "kaboom", v |-> Undefined]
      [] name = "getName" ->
           [threw |-> FALSE, msg |-> "",
            v |-> IF receiver.t = "object" /\ hasOwn(receiver, "name")
                  THEN JsGet(receiver, "name").v ELSE Str(<<"b", "a", "d">>)]
      [] name = "when" ->
           [threw |-> FALSE, msg |-> "", v |-> Obj(91, "Object", <<Prop("when", DateValue)>>)]
      [] name = "getInc" -> [threw |-> FALSE, msg |-> "", v |-> Fn("inc")]
      [] OTHER -> [threw |-> FALSE, msg |-> "", v |-> Undefined]

(***************************************************************************)
(* Explored inputs: environments, options and ASTs.                        *)
(***************************************************************************)
UserObj == Obj(3, "Object", <<Prop("name", Str(<<"A", "d", "a">>)), Prop("getName", Fn("getName"))>>)

MainEnv ==
    Obj(1, "Object",
        <<Prop("x", Num(1)), Prop("s", Str(<<"a">>)), Prop("u", Undefined),
          Prop("xs", Arr(2, <<Num(1), Str(<<"a">>)>>)),
          Prop("user", UserObj),
          Prop("bare", Obj(4, "null", <<Prop("a", Num(1))>>)),
          Prop("inc", Fn("inc")), Prop("boom", Fn("boom")),
          Prop("when", Fn("when")), Prop("getInc", Fn("getInc"))>>)

\* envs that define `std` themselves
StdEnvs ==
    {Obj(1, "Object", <<Prop("std", Obj(5, "Object", <<>>)), Prop("inc", Fn("inc"))>>),
     Obj(1, "null", <<Prop("std", Obj(5, "Object", <<Prop("len", Fn("inc"))>>))>>)}

\* envs that normalizeEnv must reject: not a plain object, or holding a Date
BadEnvs ==
    {Null, Num(1), Arr(1, <<Fn("inc")>>), DateValue, Fn("inc"),
     Obj(1, "Point", <<Prop("inc", Fn("inc"))>>),
     Obj(1, "Object", <<Prop("inc", Fn("inc")), Prop("x", DateValue)>>),
     Obj(1, "Object", <<Prop("o", Obj(6, "Object", <<Prop("when", DateValue)>>)), Prop("inc", Fn("inc"))>>),
     Obj(1, "null", <<Prop("inc", Fn("inc")), Prop("xs", Arr(7, <<Num(1), DateValue>>))>>)}

\* envs with an enumerable accessor property: top level, nested, array index
AccessorEnvs ==
    UNION {{Obj(1, "Object", <<Prop("x", acc), Prop("inc", Fn("inc"))>>),
            Obj(1, "Object", <<Prop("user", Obj(3, "Object", <<Prop("plan", acc)>>))>>),
            Obj(1, "Object", <<Prop("xs", Arr(2, <<acc>>))>>)}
           : acc \in {Accessor(TRUE, Undefined), Accessor(FALSE, Num(1))}}

\* envs that hold a Date next to an accessor property
MixedEnvs ==
    {Obj(1, "Object", <<Prop("y", Accessor(TRUE, Undefined)), Prop("x", DateValue)>>),
     Obj(1, "Object", <<Prop("inc", Fn("inc")), Prop("y", Accessor(FALSE, Num(1))),
                        Prop("x", DateValue)>>)}

DefaultMaxSteps == 10000
DefaultMaxDepth == 256
DefaultMaxArrayElements == 1000

Options(maxSteps, maxDepth, maxArrayElements, throwOnError) ==
    [maxSteps |-> maxSteps, maxDepth |-> maxDepth,
     maxArrayElements |-> maxArrayElements, throwOnError |-> throwOnError,
     throwOnParseError |-> TRUE]

DefaultOptions == Options(DefaultMaxSteps, DefaultMaxDepth, DefaultMaxArrayElements, FALSE)

BudgetOptions ==
    {Options(b, DefaultMaxDepth, DefaultMaxArrayElements, FALSE) : b \in 0..MaxBudget}

LimitOptions ==
    {Options(DefaultMaxSteps, d, DefaultMaxArrayElements, FALSE) : d \in 0..2}
    \cup {Options(b, d, 1, FALSE) : b \in 1..2, d \in 0..1}
    \cup {Options(DefaultMaxSteps, DefaultMaxDepth, 1, FALSE),
          Options(DefaultMaxSteps, DefaultMaxDepth, DefaultMaxArrayElements, TRUE)}

Id(name) == Identifier(name)

Literals ==
    {NumberLit(Num(0)), NumberLit(Num(1)), StringLit(<<>>), StringLit(<<"a">>),
     BooleanLit(TRUE), BooleanLit(FALSE), NullLit}

Idents == {Id(n) : n \in {"x", "u", "xs", "user", "bare", "inc", "missing", "std", "toString"}}

Atoms == Literals \cup Idents

\* sub-expressions that invoke host code or fail when they are evaluated
Probes ==
    {Call(Id("boom"), <<>>), Call(Id("inc"), <<NumberLit(Num(1))>>),
     Call(Id("when"), <<>>), Call(Id("getInc"), <<>>),
     Call(Member(Id("user"), "getName"), <<>>),
     Call(Id("missing"), <<>>), Member(Id("user"), "constructor")}

Operands == Probes \cup {NumberLit(Num(1)), StringLit(<<"a">>), Id("xs")}

PropertyNames ==
    {"length", "name", "a", "getName", "toString", "missing",
     "__proto__", "prototype", "constructor"}

UnaryOps == {"!", "+", "-"}
BinaryOps == {"+", "-", "*", "/", "%", "<", "<=", ">", ">=", "==", "!=", "&&", "||"}

\* the sequences over S of length at most n
RECURSIVE SeqsUpTo(_, _)
SeqsUpTo(S, n) ==
    IF n = 0 THEN {<<>>}
    ELSE LET shorter == SeqsUpTo(S, n - 1)
         IN  shorter \cup {Append(q, x) : q \in {r \in shorter : Len(r) = n - 1}, x \in S}

\* the operands that argument lists and array literals are built from
ArgOperands ==
    {Call(Id("boom"), <<>>), Call(Id("inc"), <<NumberLit(Num(1))>>),
     Call(Id("missing"), <<>>), NumberLit(Num(1)), Id("xs")}

ArgLists == SeqsUpTo(ArgOperands, MaxArgs)

UnaryAsts == {Unary(op, a) : op \in UnaryOps, a \in Atoms \cup Probes}

ArithAsts == {Binary(op, a, b) : op \in BinaryOps, a \in Atoms, b \in Literals \cup {Id("xs")}}

LazyAsts == {Binary(op, a, b) : op \in {"&&", "||", "+", "=="}, a \in Atoms \cup Probes, b \in Operands}

MemberAsts == {Member(a, p) : a \in Atoms \cup Probes, p \in PropertyNames}

CallAsts ==
    {Call(c, as) : c \in Idents \cup Probes \cup {NumberLit(Num(1))}, as \in ArgLists}
    \cup {Call(Member(o, p), as) : o \in Idents \cup Probes, p \in PropertyNames,
                                   as \in SeqsUpTo(Operands, 1)}

ConditionalAsts == {Conditional(t, c, a) : t \in Atoms \cup Probes, c \in Operands, a \in Operands}

ArrayAsts == {ArrayLit(es) : es \in ArgLists}

NestedAsts ==
    {Unary("!", Unary("!", a)) : a \in Atoms}
    \cup {Unary("-", Binary("/", NumberLit(Num(1)), Unary("-", a))) : a \in Literals}
    \cup {ArrayLit(<<ArrayLit(<<a>>), Conditional(a, ArrayLit(<<>>), b)>>) : a \in Literals, b \in Probes}
    \cup {Call(Call(Id("getInc"), <<a>>), <<b>>) : a \in Operands, b \in Operands}

RawAsts ==
    Atoms \cup UnaryAsts \cup ArithAsts \cup LazyAsts \cup MemberAsts \cup CallAsts
          \cup ConditionalAsts \cup ArrayAsts \cup NestedAsts

Asts == {Annot(e, 0) : e \in RawAsts}

\* the expressions explored under the depth, array-size and throwing options
LimitAsts == {Annot(e, 0) : e \in Atoms \cup UnaryAsts \cup MemberAsts \cup ArrayAsts \cup NestedAsts}

\* the expressions the tests evaluate against rejected and `std` envs
SmallAsts ==
    {Annot(e, 0) : e \in
        {Id("x"), Id("std"), Id("inc"), NumberLit(Num(1)),
         Call(Id("inc"), <<NumberLit(Num(1))>>),
         Member(Id("user"), "plan"), Member(Id("xs"), "length"),
         Member(Id("std"), "len"),
         Call(Member(Id("std"), "len"), <<StringLit(<<"a">>)>>),
         Call(Member(Id("std"), "len"), <<Id("xs")>>)}}

\* the operands of the equality tests (tests/eval.test.ts:50-66): every kind
\* of value, NaN as +u, numeric strings, two references of each kind
EqOperands ==
    Literals
    \cup {StringLit(<<"1">>), StringLit(<<" ", "1">>), Unary("+", Id("u")), ArrayLit(<<>>)}
    \cup {Id(n) : n \in {"x", "u", "xs", "user", "bare", "inc", "boom"}}

EqualityAsts == {Annot(Binary(op, a, b), 0) : op \in {"==", "!="}, a \in EqOperands, b \in EqOperands}

(***************************************************************************)
(* evaluateAst / evalExpr (eval.ts:197-428) as a machine.  pc = "enter":   *)
(* evalExpr is about to be called on `cur`; pc = "return": the innermost   *)
(* evalExpr call has just returned `ret` to the frame on top of `stack`    *)
(* (or to evaluateAst when the stack is empty).  A frame is the activation *)
(* of evalExpr on frame.node that waits for a child.                       *)
(***************************************************************************)
VARIABLES
    ast,      \* the Expr given to evaluateAst
    env,      \* opts.env as the host passed it
    opts,     \* maxSteps, maxDepth, maxArrayElements, throwOnError, throwOnParseError
    pc,       \* "parse", "expression", "ready", "enter", "return", "done"
    ctx,      \* the Ctx of the evaluation: env, steps, depth and the limits
    cur,      \* the node evalExpr is entered with
    ret,      \* the EvalResult being returned
    stack,    \* the evalExpr activations in progress, innermost last
    result,   \* what evaluateAst did: returned an EvalResult or threw
    visits,   \* the spans of the nodes evalExpr was called on, in order
    returns,  \* what each finished evalExpr call returned, in order
    calls,    \* the host functions invoked, in order
    gets,     \* how many times a getter of an accessor property ran
    input,    \* the text given to parseExpression or evaluateExpression
    parsed,   \* what parseExpression did: returned a ParseResult or threw
    history   \* what the earlier evaluateAst calls with these arguments did

vars == <<ast, env, opts, pc, ctx, cur, ret, stack, result, visits, returns, calls, gets,
          input, parsed, history>>

\* the index of an error that has none (EvalError.index is optional)
NoIndex == -1

NoError == [message |-> "", span |-> NoSpan, steps |-> -1, index |-> NoIndex]
Success(v) == [success |-> TRUE, value |-> v, error |-> NoError]
evalError(message, span, steps) ==
    [success |-> FALSE, value |-> Undefined,
     error |-> [message |-> message, span |-> span, steps |-> steps, index |-> NoIndex]]

NoNode == [kind |-> "none", span |-> NoSpan]
NoResult == [status |-> "pending", exception |-> "", res |-> Success(Undefined)]
Returned(res) == [status |-> "returned", exception |-> "", res |-> res]
\* `throw new ExpEvalError(e)`: exception names the class, res carries e
ThrewEvalError(res) == [status |-> "threw", exception |-> "ExpEvalError", res |-> res]
\* an exception of the host that nothing caught
ThrewRaw(message) ==
    [status |-> "threw", exception |-> "Error", res |-> evalError(message, NoSpan, -1)]

\* the ParseError of parse.ts:37-40 and what parseExpression did with it
ParseError(message, index) == [message |-> message, index |-> index]
NoParseError == ParseError("", NoIndex)
NoParse == [status |-> "pending", success |-> FALSE, value |-> NoNode, error |-> NoParseError]
ParseReturned(ok, value, error) ==
    [status |-> "returned", success |-> ok, value |-> value, error |-> error]
\* `throw new ExpParseError(err)`
ParseThrew(error) ==
    [status |-> "threw", success |-> FALSE, value |-> NoNode, error |-> error]

Frame(node, stage, vals, fn, receiver) ==
    [node |-> node, stage |-> stage, vals |-> vals, fn |-> fn, receiver |-> receiver]

Init ==
    /\ \/ ast \in Asts /\ env = MainEnv /\ opts \in BudgetOptions \cup {DefaultOptions}
       \/ ast \in LimitAsts /\ env = MainEnv /\ opts \in LimitOptions
       \/ ast \in EqualityAsts /\ env = MainEnv /\ opts = DefaultOptions
       \/ ast \in SmallAsts
          /\ env \in {Undefined, MainEnv} \cup StdEnvs \cup BadEnvs \cup AccessorEnvs
                      \cup MixedEnvs
          /\ opts \in {DefaultOptions, Options(DefaultMaxSteps, DefaultMaxDepth, DefaultMaxArrayElements, TRUE)}
    /\ pc = "ready"
    /\ ctx = [env |-> EmptyEnv, steps |-> 0, depth |-> 0, maxSteps |-> 0,
              maxDepth |-> 0, maxArrayElements |-> 0]
    /\ cur = NoNode
    /\ ret = Success(Undefined)
    /\ stack = <<>>
    /\ result = NoResult
    /\ visits = <<>>
    /\ returns = <<>>
    /\ calls = <<>>
    /\ gets = 0
    /\ input = <<>>
    /\ parsed = NoParse
    /\ history = <<>>

\* the context of the previous call carried into the next one
evaluateAstReusingContext ==
    /\ pc = "ready"
    /\ LET envRes == normalizeEnv(env)
       IN  /\ gets' = gets + envRes.gets
           /\ IF envRes.threw
              THEN /\ result' = ThrewRaw(envRes.message)
                   /\ pc' = "done"
                   /\ UNCHANGED <<ctx, cur>>
             ELSE IF ~envRes.ok
              THEN /\ result' = LET e == evalError(envRes.message, NoSpan, 0)
                                IN  IF opts.throwOnError THEN ThrewEvalError(e) ELSE Returned(e)
                   /\ pc' = "done"
                   /\ UNCHANGED <<ctx, cur>>
              ELSE /\ ctx' = [env |-> envRes.env, steps |-> ctx.steps, depth |-> ctx.depth,
                              maxSteps |-> opts.maxSteps, maxDepth |-> opts.maxDepth,
                              maxArrayElements |-> opts.maxArrayElements]
                   /\ cur' = ast
                   /\ pc' = "enter"
                   /\ UNCHANGED result
    /\ UNCHANGED <<ast, env, opts, ret, stack, visits, returns, calls>>
    /\ UNCHANGED <<input, parsed, history>>

\* evaluateAst up to its call of evalExpr (eval.ts:405-424)
evaluateAst ==
    /\ pc = "ready"
    /\ LET envRes == normalizeEnv(env)
       IN  /\ gets' = gets + envRes.gets
           /\ IF envRes.threw
              THEN /\ result' = ThrewRaw(envRes.message)
                   /\ pc' = "done"
                   /\ UNCHANGED <<ctx, cur>>
             ELSE IF ~envRes.ok
              THEN /\ result' = LET e == evalError(envRes.message, NoSpan, 0)
                                IN  IF opts.throwOnError THEN ThrewEvalError(e) ELSE Returned(e)
                   /\ pc' = "done"
                   /\ UNCHANGED <<ctx, cur>>
              ELSE /\ ctx' = [env |-> envRes.env, steps |-> 0, depth |-> 0,
                              maxSteps |-> opts.maxSteps, maxDepth |-> opts.maxDepth,
                              maxArrayElements |-> opts.maxArrayElements]
                   /\ cur' = ast
                   /\ pc' = "enter"
                   /\ UNCHANGED result
    /\ UNCHANGED <<ast, env, opts, ret, stack, visits, returns, calls>>
    /\ UNCHANGED <<input, parsed, history>>

\* evaluateAst after evalExpr returned (eval.ts:424-427)
Finish ==
    /\ pc = "return"
    /\ stack = <<>>
    /\ result' = IF ret.success \/ ~opts.throwOnError THEN Returned(ret) ELSE ThrewEvalError(ret)
    /\ pc' = "done"
    /\ UNCHANGED <<ast, env, opts, ctx, cur, ret, stack, visits, returns, calls, gets>>
    /\ UNCHANGED <<input, parsed, history>>

\* a visit counted twice
bumpTwice(c) == [c EXCEPT !.steps = c.steps + 2]

\* bump (eval.ts:203-209): the increment of the step counter ...
bump(c) == [c EXCEPT !.steps = c.steps + 1]

\* the test made one step too late
ExceededLate(c) == c.steps > c.maxSteps + 1

\* ... and its test of the incremented counter
Exceeded(c) == c.steps > c.maxSteps

\* the limit reached one level early
TooDeepEarly(c) == c.depth >= c.maxDepth

\* the recursion limit test at the entry of evalExpr (eval.ts:233)
TooDeep(c) == c.depth > c.maxDepth

\* the entry of evalExpr passed both checks (eval.ts:230-241)
Admitted == pc = "enter" /\ ~Exceeded(bump(ctx)) /\ ~TooDeep(ctx)

\* one finished evalExpr call: the node's span, the result, the step count
Return(span, r, steps) == [span |-> span, res |-> r, steps |-> steps]

\* evalExpr returns r from the activation that was just entered: the
\* finally block undoes the depth increment
ReturnAtOnce(r) ==
    /\ ctx' = bump(ctx)
    /\ ret' = r
    /\ pc' = "return"
    /\ cur' = NoNode
    /\ visits' = Append(visits, cur.span)
    /\ returns' = Append(returns, Return(cur.span, r, ctx.steps + 1))
    /\ UNCHANGED <<ast, env, opts, stack, result>>
    /\ UNCHANGED <<input, parsed, history>>

\* evalExpr calls itself on `child`; the activation waits in a frame
Descend(frame, child) ==
    /\ ctx' = [bump(ctx) EXCEPT !.depth = ctx.depth + 1]
    /\ stack' = Append(stack, frame)
    /\ cur' = child
    /\ pc' = "enter"
    /\ visits' = Append(visits, cur.span)
    /\ UNCHANGED <<ast, env, opts, ret, result, returns, calls, gets>>
    /\ UNCHANGED <<input, parsed, history>>

BudgetExceeded ==
    /\ pc = "enter"
    /\ Exceeded(bump(ctx))
    /\ ReturnAtOnce(evalError("evaluation budget exceeded", cur.span, ctx.steps + 1))
    /\ UNCHANGED <<calls, gets>>

RecursionLimit ==
    /\ pc = "enter"
    /\ ~Exceeded(bump(ctx))
    /\ TooDeep(ctx)
    /\ ReturnAtOnce(evalError("evaluation recursion limit exceeded", cur.span, ctx.steps + 1))
    /\ UNCHANGED <<calls, gets>>

VisitLiteral ==
    /\ Admitted
    /\ cur.kind \in {"number", "string", "boolean", "null"}
    /\ ReturnAtOnce(Success(IF cur.kind = "null" THEN Null ELSE cur.value))
    /\ UNCHANGED <<calls, gets>>

\* the identifier case of evalExpr (eval.ts:250-256): [threw, v, gets]
LookupIdentifier(e, name) ==
    IF hasOwn(e, name) THEN JsGet(e, name)
    ELSE [threw |-> FALSE, v |-> Undefined, gets |-> 0]

VisitIdentifier ==
    /\ Admitted
    /\ cur.kind = "identifier"
    /\ LET r == LookupIdentifier(ctx.env, cur.name)
       IN  /\ ReturnAtOnce(IF r.threw THEN evalError("getter ran", cur.span, ctx.steps + 1)
                           ELSE Success(r.v))
           /\ gets' = gets + r.gets
    /\ UNCHANGED calls

\* a binary node that starts with its right operand
FirstChildRightFirst(node) ==
    CASE node.kind = "array" -> node.elements[1]
      [] node.kind = "unary" -> node.expr
      [] node.kind = "binary" -> node.right
      [] node.kind = "member" -> node.object
      [] node.kind = "call" ->
           IF node.callee.kind = "member" THEN node.callee.object ELSE node.callee
      [] node.kind = "conditional" -> node.test

\* the operand evalExpr evaluates first in a composite node
FirstChild(node) ==
    CASE node.kind = "array" -> node.elements[1]
      [] node.kind = "unary" -> node.expr
      [] node.kind = "binary" -> node.left
      [] node.kind = "member" -> node.object
      [] node.kind = "call" ->
           IF node.callee.kind = "member" THEN node.callee.object ELSE node.callee
      [] node.kind = "conditional" -> node.test

\* one element more let through
TooLargeLate(node, c) == Len(node.elements) > c.maxArrayElements + 1

\* the size test of an array literal (eval.ts:258)
TooLarge(node, c) == Len(node.elements) > c.maxArrayElements

VisitArray ==
    /\ Admitted
    /\ cur.kind = "array"
    /\ IF TooLarge(cur, ctx)
       THEN /\ ReturnAtOnce(evalError("array literal too large", cur.span, ctx.steps + 1))
            /\ UNCHANGED <<calls, gets>>
       ELSE IF cur.elements = <<>>
       THEN /\ ReturnAtOnce(Success(Arr(100 + cur.span.start, <<>>)))
            /\ UNCHANGED <<calls, gets>>
       ELSE Descend(Frame(cur, "elements", <<>>, Undefined, Undefined), FirstChild(cur))

VisitUnary ==
    /\ Admitted
    /\ cur.kind = "unary"
    /\ Descend(Frame(cur, "expr", <<>>, Undefined, Undefined), FirstChild(cur))

VisitBinary ==
    /\ Admitted
    /\ cur.kind = "binary"
    /\ Descend(Frame(cur, "left", <<>>, Undefined, Undefined), FirstChild(cur))

VisitMember ==
    /\ Admitted
    /\ cur.kind = "member"
    /\ Descend(Frame(cur, "object", <<>>, Undefined, Undefined), FirstChild(cur))

\* a member callee is not evaluated as a node of its own: its object is
VisitCall ==
    /\ Admitted
    /\ cur.kind = "call"
    /\ IF cur.callee.kind = "member"
       THEN Descend(Frame(cur, "object", <<>>, Undefined, Undefined), FirstChild(cur))
       ELSE Descend(Frame(cur, "callee", <<>>, Undefined, Undefined), FirstChild(cur))

VisitConditional ==
    /\ Admitted
    /\ cur.kind = "conditional"
    /\ Descend(Frame(cur, "test", <<>>, Undefined, Undefined), FirstChild(cur))

(***************************************************************************)
(* The continuations of evalExpr after a recursive call returned.          *)
(***************************************************************************)
Top == stack[Len(stack)]

Resumed(kind) == pc = "return" /\ stack # <<>> /\ Top.node.kind = kind

\* a failure handed on under the span of the activation that hands it on
PopReturnRespanned(r) ==
    /\ ret' = IF r.success THEN r
              ELSE evalError(r.error.message, stack[Len(stack)].node.span, r.error.steps)
    /\ stack' = SubSeq(stack, 1, Len(stack) - 1)
    /\ ctx' = [ctx EXCEPT !.depth = ctx.depth - 1]
    /\ pc' = "return"
    /\ cur' = NoNode
    /\ returns' = Append(returns, Return(stack[Len(stack)].node.span, ret', ctx.steps))
    /\ UNCHANGED <<ast, env, opts, result, visits>>
    /\ UNCHANGED <<input, parsed, history>>

\* the depth increment of the activation left in place
PopReturnUnbalanced(r) ==
    /\ ret' = r
    /\ stack' = SubSeq(stack, 1, Len(stack) - 1)
    /\ pc' = "return"
    /\ cur' = NoNode
    /\ returns' = Append(returns, Return(stack[Len(stack)].node.span, r, ctx.steps))
    /\ UNCHANGED <<ast, env, opts, ctx, result, visits>>
    /\ UNCHANGED <<input, parsed, history>>

\* the activation on top of the stack returns r (finally: ctx.depth--)
PopReturn(r) ==
    /\ ret' = r
    /\ stack' = SubSeq(stack, 1, Len(stack) - 1)
    /\ ctx' = [ctx EXCEPT !.depth = ctx.depth - 1]
    /\ pc' = "return"
    /\ cur' = NoNode
    /\ returns' = Append(returns, Return(stack[Len(stack)].node.span, r, ctx.steps))
    /\ UNCHANGED <<ast, env, opts, result, visits>>
    /\ UNCHANGED <<input, parsed, history>>

\* the activation on top of the stack calls evalExpr on the next child
Continue(frame, child) ==
    /\ stack' = [stack EXCEPT ![Len(stack)] = frame]
    /\ cur' = child
    /\ pc' = "enter"
    /\ UNCHANGED <<ast, env, opts, ctx, ret, result, visits, returns>>
    /\ UNCHANGED <<input, parsed, history>>

\* the message of the exception replaced by a fixed text
CaughtAnonymous(msg, node) == evalError("error", node.span, ctx.steps)

\* an exception caught by the activation of `node` (eval.ts:397-399)
Caught(msg, node) == evalError(msg, node.span, ctx.steps)

ResumeArray ==
    /\ Resumed("array")
    /\ LET f == Top
           out == Append(f.vals, ret.value)
       IN  IF ~ret.success THEN PopReturn(ret)
           ELSE IF Len(out) < Len(f.node.elements)
           THEN Continue([f EXCEPT !.vals = out], f.node.elements[Len(out) + 1])
           ELSE PopReturn(Success(Arr(100 + f.node.span.start, out)))
    /\ UNCHANGED <<calls, gets>>

\* the unary operators (eval.ts:274-283): [ok, v, msg]
ApplyUnary(op, v) ==
    CASE op = "!" -> Ok(Bool(~isTruthy(v)))
      [] op = "+" -> toNumber(v)
      [] op = "-" -> LET n == toNumber(v) IN IF n.ok THEN Ok(NumNeg(n.v)) ELSE n
      [] OTHER -> Throw("unknown unary operator")

ResumeUnary ==
    /\ Resumed("unary")
    /\ LET f == Top
           r == ApplyUnary(f.node.op, ret.value)
       IN  IF ~ret.success THEN PopReturn(ret)
           ELSE PopReturn(IF r.ok THEN Success(r.v) ELSE Caught(r.msg, f.node))
    /\ UNCHANGED <<calls, gets>>

\* the non-short-circuit binary operators (eval.ts:309-339): [ok, v, msg]
ApplyBinary(op, a, b) ==
    LET na == toNumber(a)
        nb == toNumber(b)
        sa == toString(a)
        sb == toString(b)
        arith(F(_, _)) == IF ~na.ok THEN na ELSE IF ~nb.ok THEN nb ELSE Ok(F(na.v, nb.v))
        add(x, y) == NumAdd(x, y)
        sub(x, y) == NumSub(x, y)
        mul(x, y) == NumMul(x, y)
        div(x, y) == NumDiv(x, y)
        mod(x, y) == NumMod(x, y)
        lt(x, y) == Bool(NumLt(x, y))
        le(x, y) == Bool(NumLe(x, y))
        gt(x, y) == Bool(NumLt(y, x))
        ge(x, y) == Bool(NumLe(y, x))
    IN  CASE op = "+" ->
               IF a.t = "string" \/ b.t = "string"
               THEN IF ~sa.ok THEN sa ELSE IF ~sb.ok THEN sb ELSE Ok(Str(sa.v.s \o sb.v.s))
               ELSE arith(add)
          [] op = "-" -> arith(sub)
          [] op = "*" -> arith(mul)
          [] op = "/" -> arith(div)
          [] op = "%" -> arith(mod)
          [] op = "<" -> arith(lt)
          [] op = "<=" -> arith(le)
          [] op = ">" -> arith(gt)
          [] op = ">=" -> arith(ge)
          [] op = "==" -> Ok(Bool(looseEqualSafe(a, b)))
          [] op = "!=" -> Ok(Bool(~looseEqualSafe(a, b)))
          [] OTHER -> Throw("unknown binary operator")

\* the two tests exchanged
ShortCircuitsSwapped(op, l) ==
    \/ op = "&&" /\ isTruthy(l)
    \/ op = "||" /\ ~isTruthy(l)

\* whether A && B / A || B stops at the value of A (eval.ts:288-299)
ShortCircuits(op, l) ==
    \/ op = "&&" /\ ~isTruthy(l)
    \/ op = "||" /\ isTruthy(l)

ResumeBinary ==
    /\ Resumed("binary")
    /\ LET f == Top
           lazy == f.node.op \in {"&&", "||"}
           r == ApplyBinary(f.node.op, f.vals[1], ret.value)
       IN  IF ~ret.success THEN PopReturn(ret)
           ELSE IF f.stage = "left"
           THEN IF lazy /\ ShortCircuits(f.node.op, ret.value) THEN PopReturn(ret)
                ELSE Continue([f EXCEPT !.stage = "right", !.vals = <<ret.value>>], f.node.right)
           ELSE IF lazy THEN PopReturn(ret)
           ELSE PopReturn(IF r.ok THEN Success(r.v) ELSE Caught(r.msg, f.node))
    /\ UNCHANGED <<calls, gets>>

ResumeMember ==
    /\ Resumed("member")
    /\ LET f == Top
           m == getMember(ret.value, f.node.property)
       IN  IF ~ret.success THEN PopReturn(ret) /\ UNCHANGED gets
           ELSE /\ PopReturn(IF m.ok THEN Success(m.v) ELSE Caught(m.msg, f.node))
                /\ gets' = gets + m.gets
    /\ UNCHANGED calls

ResumeConditional ==
    /\ Resumed("conditional")
    /\ LET f == Top
       IN  IF ~ret.success THEN PopReturn(ret)
           ELSE IF f.stage = "test"
           THEN Continue([f EXCEPT !.stage = "branch"],
                         IF isTruthy(ret.value) THEN f.node.consequent ELSE f.node.alternate)
           ELSE PopReturn(ret)
    /\ UNCHANGED <<calls, gets>>

\* the invocation and the check of what it returned (eval.ts:377-387);
\* `got` is the getter runs of resolving the callee in the same step
Invoke(node, fn, receiver, args, got) ==
    LET out == HostCall(fn.name, receiver, args)
        chk == isRuntimeValue(out.v)
    IN  /\ calls' = Append(calls, [fn |-> fn.name, receiver |-> receiver,
                                   args |-> args, span |-> node.span,
                                   steps |-> ctx.steps])
        /\ IF out.threw THEN PopReturn(Caught(out.msg, node)) /\ gets' = gets + got
           ELSE /\ gets' = gets + got + chk.gets
                /\ PopReturn(IF chk.threw THEN Caught("getter ran", node)
                             ELSE IF ~chk.ok
                             THEN evalError("function returned an unsupported value",
                                            node.span, ctx.steps)
                             ELSE Success(out.v))

\* a method looked up along the prototype chain of the receiver
ResolveCalleeInherited(node, stage, v) ==
    IF stage = "object"
    THEN LET m == getMemberInherited(v, node.callee.property)
         IN  [ok |-> m.ok, fn |-> m.v, receiver |-> v, msg |-> m.msg, gets |-> m.gets]
    ELSE [ok |-> TRUE, fn |-> v, receiver |-> Undefined, msg |-> "", gets |-> 0]

\* what the call resolved as its function: [ok, fn, receiver, msg, gets]
ResolveCallee(node, stage, v) ==
    IF stage = "object"
    THEN LET m == getMember(v, node.callee.property)
         IN  [ok |-> m.ok, fn |-> m.v, receiver |-> v, msg |-> m.msg, gets |-> m.gets]
    ELSE [ok |-> TRUE, fn |-> v, receiver |-> Undefined, msg |-> "", gets |-> 0]

\* the callee (or the object of a member callee) has been evaluated
ResumeCallee ==
    /\ Resumed("call")
    /\ Top.stage \in {"object", "callee"}
    /\ LET f == Top
           c == ResolveCallee(f.node, f.stage, ret.value)
       IN  IF ~ret.success THEN PopReturn(ret) /\ UNCHANGED <<calls, gets>>
           ELSE IF ~c.ok
           THEN /\ PopReturn(Caught(c.msg, f.node))
                /\ gets' = gets + c.gets
                /\ UNCHANGED calls
           ELSE IF c.fn.t # "function"
           THEN /\ PopReturn(evalError("attempted to call a non-function", f.node.span, ctx.steps))
                /\ gets' = gets + c.gets
                /\ UNCHANGED calls
           ELSE IF f.node.args = <<>>
           THEN Invoke(f.node, c.fn, c.receiver, <<>>, c.gets)
           ELSE /\ Continue([f EXCEPT !.stage = "args", !.fn = c.fn, !.receiver = c.receiver],
                            f.node.args[1])
                /\ gets' = gets + c.gets
                /\ UNCHANGED calls

\* an argument has been evaluated
ResumeArgument ==
    /\ Resumed("call")
    /\ Top.stage = "args"
    /\ LET f == Top
           args == Append(f.vals, ret.value)
       IN  IF ~ret.success THEN PopReturn(ret) /\ UNCHANGED <<calls, gets>>
           ELSE IF Len(args) < Len(f.node.args)
           THEN /\ Continue([f EXCEPT !.vals = args], f.node.args[Len(args) + 1])
                /\ UNCHANGED <<calls, gets>>
           ELSE Invoke(f.node, f.fn, f.receiver, args, 0)

Next ==
    \/ evaluateAst
    \/ BudgetExceeded
    \/ RecursionLimit
    \/ VisitLiteral
    \/ VisitIdentifier
    \/ VisitArray
    \/ VisitUnary
    \/ VisitBinary
    \/ VisitMember
    \/ VisitCall
    \/ VisitConditional
    \/ ResumeArray
    \/ ResumeUnary
    \/ ResumeBinary
    \/ ResumeMember
    \/ ResumeConditional
    \/ ResumeCallee
    \/ ResumeArgument
    \/ Finish

Spec == Init /\ [][Next]_vars

(***************************************************************************)
(* Several top-level calls one after the other.  The caller keeps what a   *)
(* call did and calls evaluateAst again with the same AST, env and         *)
(* options.  Whatever the previous call left behind (its context, the last *)
(* result of evalExpr) is still there when the next call begins.           *)
(***************************************************************************)
\* how many calls a caller makes
MaxCalls == 2

\* what the caller keeps of a call
Outcome == [result |-> result, visits |-> visits, calls |-> calls]

CallAgain ==
    /\ pc = "done"
    /\ Len(history) < MaxCalls - 1
    /\ history' = Append(history, Outcome)
    /\ pc' = "ready"
    /\ result' = NoResult
    /\ visits' = <<>>
    /\ returns' = <<>>
    /\ calls' = <<>>
    /\ gets' = 0
    /\ UNCHANGED <<ast, env, opts, ctx, cur, ret, stack, input, parsed>>

RepeatNext == Next \/ CallAgain

RepeatSpec == Init /\ [][RepeatNext]_vars

(***************************************************************************)
(* The parser (parse.ts, string_literal.ts).  The input is a sequence of   *)
(* characters and a cursor is an offset into it, from 0.  A parser applied *)
(* at a cursor gives [ok, fatal, value, index, expected]: on success the   *)
(* value and the cursor after it, on failure the cursor where it failed    *)
(* and what was expected there.  A failure under `cut` is fatal: the       *)
(* combinators any, many, optional and sepBy hand it on instead of trying  *)
(* something else.                                                         *)
(***************************************************************************)
\* characters are one-character strings; those TLA+ cannot write are named
NUL == "NUL"
LF == "\n"
CR == "\r"
TAB == "\t"
BS == "BS"
FF == "FF"
VT == "VT"
LS == "U+2028"
PS == "U+2029"
Backslash == "\\"
DoubleQuote == "\""
SingleQuote == "'"

LineTerminators == {LF, CR, LS, PS}

LowerHexLetters == <<"a", "b", "c", "d", "e", "f">>

UpperHexLetters == <<"A", "B", "C", "D", "E", "F">>

IsHexDigit(c) ==
    \/ IsDigit(c)
    \/ \E k \in 1..6 : LowerHexLetters[k] = c \/ UpperHexLetters[k] = c

HexValue(c) ==
    IF IsDigit(c) THEN DigitVal(c)
    ELSE 9 + CHOOSE k \in 1..6 : LowerHexLetters[k] = c \/ UpperHexLetters[k] = c

AsciiLetters ==
    {"a", "b", "c", "d", "e", "f", "g", "h", "i", "j", "k", "l", "m",
     "n", "o", "p", "q", "r", "s", "t", "u", "v", "w", "x", "y", "z",
     "A", "B", "C", "D", "E", "F", "G", "H", "I", "J", "K", "L", "M",
     "N", "O", "P", "Q", "R", "S", "T", "U", "V", "W", "X", "Y", "Z"}

\* /[_a-zA-Z]/
IsIdentStart(c) == c = "_" \/ c \in AsciiLetters

\* /[_a-zA-Z0-9]/
IsIdentContinue(c) == IsIdentStart(c) \/ IsDigit(c)

\* String.fromCharCode, for the code units the inputs can name
FromCharCode(code) ==
    CASE code = 0 -> NUL
      [] code = 9 -> TAB
      [] code = 10 -> LF
      [] code = 13 -> CR
      [] code = 48 -> "0"
      [] code = 49 -> "1"
      [] code = 65 -> "A"
      [] code = 97 -> "a"
      [] code = 8232 -> LS

\* the characters of a fixed token or word
Chars(name) ==
    CASE name = "|>" -> <<"|", ">">>
      [] name = "||" -> <<"|", "|">>
      [] name = "&&" -> <<"&", "&">>
      [] name = "==" -> <<"=", "=">>
      [] name = "!=" -> <<"!", "=">>
      [] name = "<=" -> <<"<", "=">>
      [] name = ">=" -> <<">", "=">>
      [] name = "//" -> <<"/", "/">>
      [] name = "/*" -> <<"/", "*">>
      [] name = "*/" -> <<"*", "/">>
      [] name = "true" -> <<"t", "r", "u", "e">>
      [] name = "false" -> <<"f", "a", "l", "s", "e">>
      [] name = "null" -> <<"n", "u", "l", "l">>
      [] name = "truex" -> <<"t", "r", "u", "e", "x">>
      [] name = "nul" -> <<"n", "u", "l">>
      [] name = "inc" -> <<"i", "n", "c">>
      [] name = "xs" -> <<"x", "s">>
      [] name = "x1" -> <<"x", "1">>
      [] name = "user" -> <<"u", "s", "e", "r">>
      [] name = "plan" -> <<"p", "l", "a", "n">>
      [] name = "boom" -> <<"b", "o", "o", "m">>
      [] name = "when" -> <<"w", "h", "e", "n">>
      [] name = "length" -> <<"l", "e", "n", "g", "t", "h">>
      [] name = "getName" -> <<"g", "e", "t", "N", "a", "m", "e">>
      [] name = "getInc" -> <<"g", "e", "t", "I", "n", "c">>
      [] OTHER -> <<name>>

\* the words an input can spell with more than one character
Words ==
    {"true", "false", "null", "truex", "nul", "inc", "xs", "x1", "user", "plan",
     "boom", "when", "length", "getName", "getInc"}

\* every longer word outside the list: no env binds it, no rule reserves it
UnlistedName == "(unlisted)"

\* the string a run of identifier characters spells (first + rest.join(""))
Intern(cs) ==
    IF Len(cs) = 1 THEN cs[1]
    ELSE IF \E w \in Words : Chars(w) = cs THEN CHOOSE w \in Words : Chars(w) = cs
    ELSE UnlistedName

\* v under the name K gives it: a value computed once and used many times
Let(v, K(_)) == K(v)

success(i, v) == [ok |-> TRUE, fatal |-> FALSE, value |-> v, index |-> i, expected |-> ""]

failure(i, expected) ==
    [ok |-> FALSE, fatal |-> FALSE, value |-> NoNode, index |-> i, expected |-> expected]

\* cut(p, expected): a failure of p becomes fatal
cut(r, expected) == IF r.ok THEN r ELSE [r EXCEPT !.fatal = TRUE, !.expected = expected]

\* any(p1, ..., pn) from the results of the alternatives at one cursor: the
\* first success or fatal failure, else the failure that got furthest
RECURSIVE any(_)
any(rs) ==
    LET h == Head(rs)
    IN  IF Len(rs) = 1 \/ h.ok \/ h.fatal THEN h
        ELSE LET r == any(Tail(rs))
             IN  IF r.ok \/ r.fatal \/ r.index > h.index THEN r ELSE h

StartsWith(t, i, s) == i + Len(s) <= Len(t) /\ SubSeq(t, i + 1, i + Len(s)) = s

\* the character at the cursor is in the class
AtClass(t, i, Class(_)) == i < Len(t) /\ Class(t[i + 1])

str(name, t, i) ==
    IF StartsWith(t, i, Chars(name)) THEN success(i + Len(Chars(name)), name)
    ELSE failure(i, name)

Whitespace == {" ", TAB, LF, CR}

\* where a `//` comment ends: at the line terminator or the end of input
RECURSIVE LineEnd(_, _)
LineEnd(t, i) ==
    IF i >= Len(t) \/ t[i + 1] \in LineTerminators THEN i ELSE LineEnd(t, i + 1)

\* the cursor after the `*/` that closes a block comment, -1 if none does
RECURSIVE BlockEnd(_, _)
BlockEnd(t, i) ==
    IF i + 2 > Len(t) THEN -1
    ELSE IF StartsWith(t, i, Chars("*/")) THEN i + 2
    ELSE BlockEnd(t, i + 1)

\* lx.trivia: the cursor after whitespace and comments
RECURSIVE trivia(_, _)
trivia(t, i) ==
    IF i < Len(t) /\ t[i + 1] \in Whitespace THEN trivia(t, i + 1)
    ELSE IF StartsWith(t, i, Chars("//")) THEN trivia(t, LineEnd(t, i + 2))
    ELSE IF StartsWith(t, i, Chars("/*")) /\ BlockEnd(t, i + 2) # -1
    THEN trivia(t, BlockEnd(t, i + 2))
    ELSE i

\* lx.lexeme(p): p, then the trivia after it
lexeme(r, t) == IF r.ok THEN [r EXCEPT !.index = trivia(t, r.index)] ELSE r

\* withSpan(p): the value of p between the cursor before and after it
withSpan(r, i) ==
    IF r.ok THEN [r EXCEPT !.value = [value |-> r.value, start |-> i, end |-> r.index]]
    ELSE r

symbol(name, t, i) == lexeme(str(name, t, i), t)

\* not(identContinue) after the word
keyword(name, t, i) ==
    Let(str(name, t, i), LAMBDA r :
        IF ~r.ok THEN r
        ELSE IF AtClass(t, r.index, IsIdentContinue) THEN failure(r.index, "not identifier char")
        ELSE lexeme(withSpan(r, i), t))

RECURSIVE identEnd(_, _)
identEnd(t, i) == IF AtClass(t, i, IsIdentContinue) THEN identEnd(t, i + 1) ELSE i

identSpan(t, i) ==
    IF AtClass(t, i, IsIdentStart)
    THEN LET j == identEnd(t, i + 1)
         IN  lexeme(withSpan(success(j, Intern(SubSeq(t, i + 1, j))), i), t)
    ELSE failure(i, "identifier start")

RECURSIVE digitsEnd(_, _)
digitsEnd(t, i) == IF AtClass(t, i, IsDigit) THEN digitsEnd(t, i + 1) ELSE i

\* number(): an integer part and, after a point, a fraction
number(t, i) ==
    Let(digitsEnd(t, i), LAMBDA j :
    Let(IF StartsWith(t, j, <<".">>) THEN digitsEnd(t, j + 1) ELSE j, LAMBDA k :
    Let(IF k > j + 1 THEN k ELSE j, LAMBDA e :
    Let(SubSeq(t, i + 1, j) \o SubSeq(t, j + 2, e), LAMBDA ds :
        IF j = i THEN failure(i, "number")
        ELSE success(e, Rat(DigitsToNat(ds), Pow10(e - j - (IF e > j THEN 1 ELSE 0))))))))

numberSpan(t, i) == lexeme(withSpan(number(t, i), i), t)

lparen(t, i) == lexeme(withSpan(str("(", t, i), i), t)
rparen(t, i) == lexeme(withSpan(str(")", t, i), i), t)
lbrack(t, i) == lexeme(withSpan(str("[", t, i), i), t)
rbrack(t, i) == lexeme(withSpan(str("]", t, i), i), t)
comma(t, i) == symbol(",", t, i)

(***************************************************************************)
(* String literals (string_literal.ts).  The value of a literal is the     *)
(* sequence of its characters.                                             *)
(***************************************************************************)
\* how many hex digits stand at the cursor, up to n
RECURSIVE hexRun(_, _, _)
hexRun(t, i, n) == IF n > 0 /\ AtClass(t, i, IsHexDigit) THEN 1 + hexRun(t, i + 1, n - 1) ELSE 0

RECURSIVE HexNumber(_)
HexNumber(hs) ==
    IF hs = <<>> THEN 0
    ELSE 16 * HexNumber(SubSeq(hs, 1, Len(hs) - 1)) + HexValue(hs[Len(hs)])

\* repeat(n, hexDigit()), joined
hexN(n, t, i) ==
    Let(hexRun(t, i, n), LAMBDA k :
        IF k = n THEN success(i + n, SubSeq(t, i + 1, i + n)) ELSE failure(i + k, "hex digit"))

hex1to6(t, i) ==
    Let(hexRun(t, i, 6), LAMBDA k :
        IF k >= 1 THEN success(i + k, SubSeq(t, i + 1, i + k)) ELSE failure(i, "hex digit"))

strictInvalidDigitEscape(t, i) ==
    IF ~AtClass(t, i, IsDigit) THEN failure(i, "digit")
    ELSE IF DigitVal(t[i + 1]) = 0 THEN failure(i, "strict mode digit escape")
    ELSE success(i + 1, DigitVal(t[i + 1]))

lineContinuationTail(t, i) ==
    IF StartsWith(t, i, <<CR>>)
    THEN success(IF StartsWith(t, i + 1, <<LF>>) THEN i + 2 ELSE i + 1, <<>>)
    ELSE IF AtClass(t, i, LAMBDA c : c \in {LF, LS, PS}) THEN success(i + 1, <<>>)
    ELSE failure(i, "line terminator")

singleEscapeChar(t, i) ==
    IF i >= Len(t) THEN failure(i, "escape")
    ELSE Let(t[i + 1], LAMBDA c :
             CASE c = "n" -> success(i + 1, <<LF>>)
                [] c = "r" -> success(i + 1, <<CR>>)
                [] c = "t" -> success(i + 1, <<TAB>>)
                [] c = "b" -> success(i + 1, <<BS>>)
                [] c = "f" -> success(i + 1, <<FF>>)
                [] c = "v" -> success(i + 1, <<VT>>)
                [] c = Backslash -> success(i + 1, <<Backslash>>)
                [] c = DoubleQuote -> success(i + 1, <<DoubleQuote>>)
                [] c = SingleQuote -> success(i + 1, <<SingleQuote>>)
                [] OTHER -> failure(i, "escape"))

\* `\0`, committed to not being followed by a decimal digit
zeroEscape(t, i) ==
    IF ~StartsWith(t, i, <<"0">>) THEN failure(i, "0")
    ELSE IF AtClass(t, i + 1, IsDigit)
    THEN cut(failure(i + 1, "not digit"), "strict mode: legacy octal escape")
    ELSE success(i + 1, <<NUL>>)

hexEscape(t, i) ==
    IF ~StartsWith(t, i, <<"x">>) THEN failure(i, "x")
    ELSE Let(cut(hexN(2, t, i + 1), "2 hex digits"), LAMBDA r :
             IF r.ok THEN success(r.index, <<FromCharCode(HexNumber(r.value))>>) ELSE r)

unicodeEscape4Body(t, i) ==
    Let(cut(hexN(4, t, i), "4 hex digits"), LAMBDA r :
        IF r.ok THEN success(r.index, <<FromCharCode(HexNumber(r.value))>>) ELSE r)

unicodeCodePointEscapeBody(t, i) ==
    IF ~StartsWith(t, i, <<"{">>) THEN failure(i, "{")
    ELSE Let(cut(hex1to6(t, i + 1), "1-6 hex digits"), LAMBDA digitsRes :
         Let(cut(str("}", t, digitsRes.index), "'}'"), LAMBDA close :
             IF ~digitsRes.ok THEN digitsRes
             ELSE IF ~close.ok THEN close
             ELSE IF HexNumber(digitsRes.value) > 1114111
             THEN failure(close.index, "unicode code point")
             ELSE success(close.index, <<FromCharCode(HexNumber(digitsRes.value))>>)))

unicodeEscape(t, i) ==
    IF ~StartsWith(t, i, <<"u">>) THEN failure(i, "u")
    ELSE cut(any(<<unicodeCodePointEscapeBody(t, i + 1), unicodeEscape4Body(t, i + 1)>>),
             "unicode escape")

\* any character but a line terminator
identityEscapeChar(t, i) ==
    IF i < Len(t) /\ t[i + 1] \notin LineTerminators THEN success(i + 1, <<t[i + 1]>>)
    ELSE failure(i, "escape character")

\* a digit escape passed over: the digit is left to the identity escape
strictDigitEscapeErrorLenient(t, i) == failure(i, "digit")

\* a digit other than 0 after the backslash: a committed failure
strictDigitEscapeError(t, i) ==
    Let(strictInvalidDigitEscape(t, i), LAMBDA d :
        IF ~d.ok THEN d
        ELSE cut(failure(d.index, "strict mode: digit escapes are not allowed"),
                 "strict mode: digit escapes are not allowed"))

escapeSequence(t, i) ==
    any(<<lineContinuationTail(t, i), singleEscapeChar(t, i), zeroEscape(t, i),
          hexEscape(t, i), unicodeEscape(t, i), strictDigitEscapeError(t, i),
          identityEscapeChar(t, i)>>)

escape(t, i) ==
    IF StartsWith(t, i, <<Backslash>>) THEN escapeSequence(t, i + 1)
    ELSE failure(i, Backslash)

\* any character but the quote, the backslash and the line terminators
normalChar(quote, t, i) ==
    IF i < Len(t) /\ t[i + 1] \notin LineTerminators \cup {quote, Backslash}
    THEN success(i + 1, <<t[i + 1]>>)
    ELSE failure(i, "string character")

\* many(any(escape, normalChar)), joined: acc is what was read so far
RECURSIVE stringBody(_, _, _, _)
stringBody(quote, t, i, acc) ==
    Let(any(<<escape(t, i), normalChar(quote, t, i)>>), LAMBDA r :
        IF r.fatal THEN r
        ELSE IF ~r.ok THEN success(i, acc)
        ELSE stringBody(quote, t, r.index, acc \o r.value))

makeStringLiteral(quote, t, i) ==
    IF ~StartsWith(t, i, <<quote>>) THEN failure(i, quote)
    ELSE Let(stringBody(quote, t, i + 1, <<>>), LAMBDA body :
             IF ~body.ok THEN body
             ELSE IF ~StartsWith(t, body.index, <<quote>>) THEN failure(body.index, quote)
             ELSE success(body.index + 1, body.value))

createStringSpan(t, i) ==
    lexeme(withSpan(any(<<makeStringLiteral(DoubleQuote, t, i),
                          makeStringLiteral(SingleQuote, t, i)>>), i), t)

stringSpan(t, i) == createStringSpan(t, i)

(***************************************************************************)
(* The grammar (parse.ts:125-334; the rule s.X of the source is s_X) and the node constructors it uses        *)
(* (ast/mod.ts:62-103).                                                    *)
(***************************************************************************)
mkUnary(op, start, expr) == WithSpan(Unary(op, expr), Span(start, expr.span.end))

mkBinary(left, op, right) ==
    WithSpan(Binary(op, left, right), Span(left.span.start, right.span.end))

mkMember(object, property) ==
    WithSpan(Member(object, property.value), Span(object.span.start, property.end))

mkCall(callee, args, end) == WithSpan(Call(callee, args), Span(callee.span.start, end))

\* the piped value put last in the argument list
mkPipedCallLast(start, rhs, lhs) ==
    IF rhs.kind = "call"
    THEN WithSpan(Call(rhs.callee, Append(rhs.args, lhs)), Span(start, rhs.span.end))
    ELSE WithSpan(Call(rhs, <<lhs>>), Span(start, rhs.span.end))

mkPipedCall(start, rhs, lhs) ==
    IF rhs.kind = "call"
    THEN WithSpan(Call(rhs.callee, <<lhs>> \o rhs.args), Span(start, rhs.span.end))
    ELSE WithSpan(Call(rhs, <<lhs>>), Span(start, rhs.span.end))

RESERVED == {"true", "false", "null"}

\* any(lx.symbol(s1), ..., lx.symbol(sn))
RECURSIVE anySymbol(_, _, _)
anySymbol(names, t, i) ==
    Let(symbol(Head(names), t, i), LAMBDA r :
        IF r.ok \/ Len(names) = 1 THEN r ELSE anySymbol(Tail(names), t, i))

\* the binary levels from the loosest to the tightest, each with the
\* operators in the order its `any` tries them
LogicalOrOps == <<"||">>
LogicalAndOps == <<"&&">>
EqualityOps == <<"==", "!=">>
ComparisonOps == <<"<=", ">=", "<", ">">>
AdditiveOps == <<"+", "-">>
MultiplicativeOps == <<"*", "/", "%">>

boolExpr(t, i) ==
    Let(keyword("true", t, i), LAMBDA kwTrue :
    Let(keyword("false", t, i), LAMBDA kwFalse :
    Let(any(<<kwTrue, kwFalse>>), LAMBDA r :
        IF ~r.ok THEN r
        ELSE success(r.index, WithSpan(BooleanLit(r.value.value = "true"),
                                       Span(r.value.start, r.value.end))))))

nullExpr(t, i) ==
    Let(keyword("null", t, i), LAMBDA r :
        IF ~r.ok THEN r
        ELSE success(r.index, WithSpan(NullLit, Span(r.value.start, r.value.end))))

numExpr(t, i) ==
    Let(numberSpan(t, i), LAMBDA r :
        IF ~r.ok THEN r
        ELSE success(r.index, WithSpan(NumberLit(r.value.value),
                                       Span(r.value.start, r.value.end))))

strExpr(t, i) ==
    Let(stringSpan(t, i), LAMBDA r :
        IF ~r.ok THEN r
        ELSE success(r.index, WithSpan(StringLit(r.value.value),
                                       Span(r.value.start, r.value.end))))

\* guard(identSpan, (id) => !RESERVED.has(id.value), "identifier")
identExpr(t, i) ==
    Let(identSpan(t, i), LAMBDA r :
        IF ~r.ok THEN r
        ELSE IF r.value.value \in RESERVED THEN failure(i, "identifier")
        ELSE success(r.index, WithSpan(Identifier(r.value.value),
                                       Span(r.value.start, r.value.end))))

RECURSIVE s_Expression(_, _)
RECURSIVE sepByRest(_, _, _)
RECURSIVE postfixOps(_, _, _)
RECURSIVE ExpressionLang(_, _, _)
RECURSIVE chainRest(_, _, _, _)
RECURSIVE pipelineRest(_, _, _)

\* sepBy(s.Expression, comma) after its first element
sepByRest(t, i, acc) ==
    Let(comma(t, i), LAMBDA c :
    Let(ExpressionLang("Expression", t, c.index), LAMBDA e :
        IF ~c.ok THEN success(i, acc)
        ELSE IF e.fatal THEN e
        ELSE IF ~e.ok THEN success(i, acc)
        ELSE sepByRest(t, e.index, Append(acc, e.value))))

\* sepBy(s.Expression, comma), the separators filtered out
sepBy(t, i) ==
    Let(ExpressionLang("Expression", t, i), LAMBDA e :
        IF e.fatal THEN e
        ELSE IF ~e.ok THEN success(i, <<>>)
        ELSE sepByRest(t, e.index, <<e.value>>))

arrayExpr(t, i) ==
    Let(lbrack(t, i), LAMBDA open :
    Let(sepBy(t, open.index), LAMBDA elements :
    Let(rbrack(t, elements.index), LAMBDA close :
        IF ~open.ok THEN open
        ELSE IF ~elements.ok THEN elements
        ELSE IF ~close.ok THEN close
        ELSE success(close.index, WithSpan(ArrayLit(elements.value),
                                           Span(open.value.start, close.value.end))))))

\* ([, e]) => e: the node between the parentheses, as it is
parenExpr(t, i) ==
    Let(symbol("(", t, i), LAMBDA open :
    Let(ExpressionLang("Expression", t, open.index), LAMBDA e :
    Let(symbol(")", t, e.index), LAMBDA close :
        IF ~open.ok THEN open
        ELSE IF ~e.ok THEN e
        ELSE IF ~close.ok THEN close
        ELSE success(close.index, e.value))))

s_Primary(t, i) ==
    any(<<arrayExpr(t, i), boolExpr(t, i), nullExpr(t, i), numExpr(t, i),
          strExpr(t, i), parenExpr(t, i), identExpr(t, i)>>)

memberOp(t, i) ==
    Let(symbol(".", t, i), LAMBDA dot :
    Let(identSpan(t, dot.index), LAMBDA prop :
        IF ~dot.ok THEN dot
        ELSE IF ~prop.ok THEN prop
        ELSE success(prop.index, [op |-> "member", property |-> prop.value])))

callOp(t, i) ==
    Let(lparen(t, i), LAMBDA open :
    Let(sepBy(t, open.index), LAMBDA args :
    Let(rparen(t, args.index), LAMBDA close :
        IF ~open.ok THEN open
        ELSE IF ~args.ok THEN args
        ELSE IF ~close.ok THEN close
        ELSE success(close.index, [op |-> "call", args |-> args.value, end |-> close.value.end]))))

\* many(any(memberOp, callOp)) applied to the base, left to right
postfixOps(t, i, acc) ==
    Let(any(<<memberOp(t, i), callOp(t, i)>>), LAMBDA r :
        IF r.fatal THEN r
        ELSE IF ~r.ok THEN success(i, acc)
        ELSE postfixOps(t, r.index,
                        IF r.value.op = "member" THEN mkMember(acc, r.value.property)
                        ELSE mkCall(acc, r.value.args, r.value.end)))

s_Postfix(t, i) ==
    Let(ExpressionLang("Primary", t, i), LAMBDA base :
        IF ~base.ok THEN base ELSE postfixOps(t, base.index, base.value))

\* lx.lexeme(withSpan(any(str("!"), str("-"), str("+"))))
unaryOp(t, i) ==
    lexeme(withSpan(any(<<str("!", t, i), str("-", t, i), str("+", t, i)>>), i), t)

\* many(op) then Postfix; the operators are applied from the last to the first
s_Unary(t, i) ==
    Let(unaryOp(t, i), LAMBDA o :
    Let(ExpressionLang("Unary", t, o.index), LAMBDA r :
        IF ~o.ok THEN s_Postfix(t, i)
        ELSE IF ~r.ok THEN r
        ELSE success(r.index, mkUnary(o.value.value, o.value.start, r.value))))

\* `+ -` and `* / %` with their levels exchanged
LevelOpsExchanged(level) ==
    CASE level = 1 -> LogicalOrOps
      [] level = 2 -> LogicalAndOps
      [] level = 3 -> EqualityOps
      [] level = 4 -> ComparisonOps
      [] level = 5 -> MultiplicativeOps
      [] level = 6 -> AdditiveOps

\* the operators of a binary level
LevelOps(level) ==
    CASE level = 1 -> LogicalOrOps
      [] level = 2 -> LogicalAndOps
      [] level = 3 -> EqualityOps
      [] level = 4 -> ComparisonOps
      [] level = 5 -> AdditiveOps
      [] level = 6 -> MultiplicativeOps

\* the rule that parses the operands of a binary level
OperandRule(level) ==
    CASE level = 1 -> "LogicalAnd"
      [] level = 2 -> "Equality"
      [] level = 3 -> "Comparison"
      [] level = 4 -> "Additive"
      [] level = 5 -> "Multiplicative"
      [] level = 6 -> "Unary"

\* chainl1 after its first operand: many(seq(op, p)), folded to the left
chainRest(level, t, i, acc) ==
    Let(anySymbol(LevelOps(level), t, i), LAMBDA o :
    Let(ExpressionLang(OperandRule(level), t, o.index), LAMBDA r :
        IF ~o.ok THEN success(i, acc)
        ELSE IF r.fatal THEN r
        ELSE IF ~r.ok THEN success(i, acc)
        ELSE chainRest(level, t, r.index, mkBinary(acc, o.value, r.value))))

\* chainl1(p, op), given what p made of the start of the text
chainl1(level, t, first) ==
    IF first.ok THEN chainRest(level, t, first.index, first.value) ELSE first

s_Multiplicative(t, i) == chainl1(6, t, s_Unary(t, i))
s_Additive(t, i) == chainl1(5, t, s_Multiplicative(t, i))
s_Comparison(t, i) == chainl1(4, t, s_Additive(t, i))
s_Equality(t, i) == chainl1(3, t, s_Comparison(t, i))
s_LogicalAnd(t, i) == chainl1(2, t, s_Equality(t, i))
s_LogicalOr(t, i) == chainl1(1, t, s_LogicalAnd(t, i))

\* many(seq(op, s.Postfix)) reduced with mkPipedCall
pipelineRest(t, i, acc) ==
    Let(symbol("|>", t, i), LAMBDA o :
    Let(ExpressionLang("Postfix", t, o.index), LAMBDA rhs :
        IF ~o.ok THEN success(i, acc)
        ELSE IF rhs.fatal THEN rhs
        ELSE IF ~rhs.ok THEN success(i, acc)
        ELSE pipelineRest(t, rhs.index, mkPipedCall(acc.span.start, rhs.value, acc))))

s_Pipeline(t, i) ==
    Let(ExpressionLang("LogicalOr", t, i), LAMBDA first :
        IF ~first.ok THEN first ELSE pipelineRest(t, first.index, first.value))

\* optional(seq(q, s.Expression, colon, s.Expression))
conditionalRest(t, i) ==
    Let(symbol("?", t, i), LAMBDA q :
    Let(ExpressionLang("Expression", t, q.index), LAMBDA consequent :
    Let(symbol(":", t, consequent.index), LAMBDA colon :
    Let(ExpressionLang("Expression", t, colon.index), LAMBDA alternate :
        IF ~q.ok THEN q
        ELSE IF ~consequent.ok THEN consequent
        ELSE IF ~colon.ok THEN colon
        ELSE IF ~alternate.ok THEN alternate
        ELSE success(alternate.index,
                     [consequent |-> consequent.value, alternate |-> alternate.value])))))

s_Conditional(t, i) ==
    Let(ExpressionLang("Pipeline", t, i), LAMBDA test :
    Let(conditionalRest(t, test.index), LAMBDA rest :
        IF ~test.ok THEN test
        ELSE IF rest.fatal THEN rest
        ELSE IF ~rest.ok THEN test
        ELSE success(rest.index,
                     WithSpan(Conditional(test.value, rest.value.consequent, rest.value.alternate),
                              Span(test.value.span.start, rest.value.alternate.span.end)))))

s_Expression(t, i) == ExpressionLang("Conditional", t, i)

\* createLanguage: a rule reaches another one by its name, as s.Name
ExpressionLang(rule, t, i) ==
    CASE rule = "Expression" -> s_Expression(t, i)
      [] rule = "Conditional" -> s_Conditional(t, i)
      [] rule = "Pipeline" -> s_Pipeline(t, i)
      [] rule = "LogicalOr" -> s_LogicalOr(t, i)
      [] rule = "LogicalAnd" -> s_LogicalAnd(t, i)
      [] rule = "Equality" -> s_Equality(t, i)
      [] rule = "Comparison" -> s_Comparison(t, i)
      [] rule = "Additive" -> s_Additive(t, i)
      [] rule = "Multiplicative" -> s_Multiplicative(t, i)
      [] rule = "Unary" -> s_Unary(t, i)
      [] rule = "Postfix" -> s_Postfix(t, i)
      [] rule = "Primary" -> s_Primary(t, i)

\* leftover input let through
eofLenient(t, i) == success(i, NoNode)

eof(t, i) == IF i = Len(t) THEN success(i, NoNode) ELSE failure(i, "eof")

\* map(seq(lx.trivia, s.Expression, eof()), ([, e]) => e)
s_File(t) ==
    Let(ExpressionLang("Expression", t, trivia(t, 0)), LAMBDA e :
    Let(eof(t, e.index), LAMBDA end :
        IF ~e.ok THEN e
        ELSE IF ~end.ok THEN end
        ELSE success(end.index, e.value)))

\* { message: formatErrorCompact(res), index: res.ctx.index }
parseFailure(res) == ParseError(res.expected, res.index)

\* parseExpression (parse.ts:337-354) as a function of its arguments
parseExpressionOf(text, throwOnError) ==
    Let(s_File(text), LAMBDA res :
        IF res.ok THEN ParseReturned(TRUE, res.value, NoParseError)
        ELSE IF throwOnError THEN ParseThrew(parseFailure(res))
        ELSE ParseReturned(FALSE, NoNode, parseFailure(res)))

(***************************************************************************)
(* parseExpression called on its own.  The inputs are texts put together   *)
(* from pieces: operands and operators for the grammar, the characters of  *)
(* string bodies for the escapes, and short runs of arbitrary tokens.      *)
(***************************************************************************)
\* the longest run of arbitrary tokens
MaxPieces == 3

\* the longest string body
MaxBody == 3

RECURSIVE Join(_)
Join(parts) == IF parts = <<>> THEN <<>> ELSE Head(parts) \o Join(Tail(parts))

Spaces == {<<>>, <<" ">>}

\* `a op1 b op2 c`, written tight or spaced
BinaryInputs ==
    {Join(<<<<"a">>, sp, Chars(op1), sp, <<"b">>, sp, Chars(op2), sp, <<"c">>>>) :
        op1 \in BinaryOps, op2 \in BinaryOps, sp \in Spaces}

\* prefix and postfix operators next to a binary operator, and conditionals
MixedInputs ==
    {Join(<<Chars(u), <<"a">>, Chars(op), <<"b">>>>) : u \in UnaryOps, op \in BinaryOps}
    \cup {Join(<<<<"a">>, Chars(op), Chars(u), <<"b">>>>) : u \in UnaryOps, op \in BinaryOps}
    \cup {Join(<<<<"a">>, Chars(op), <<"b">>, post>>) :
            op \in BinaryOps, post \in {<<".", "c">>, <<"(", "c", ")">>, <<"(", ")">>}}
    \cup {Join(<<Chars(u), <<"a">>, post>>) :
            u \in UnaryOps, post \in {<<".", "c">>, <<"(", "c", ")">>, <<"(", ")">>}}
    \cup {Join(<<Chars(u), Chars(v), <<"a">>>>) : u \in UnaryOps, v \in UnaryOps}
    \cup {Join(<<<<"a", "?", "b", ":", "c">>, Chars(op), <<"d">>>>) : op \in BinaryOps}
    \cup {Join(<<<<"a">>, Chars(op), <<"b", "?", "c", ":", "d">>>>) : op \in BinaryOps}
    \cup {<<"a", "?", "b", ":", "c", "?", "d", ":", "e">>,
          <<"a", "?", "b", "?", "c", ":", "d", ":", "e">>,
          <<"1", " ", "+", " ", "2", " ", "*", " ", "3">>,
          <<"a", " ", "-", " ", "b", " ", "-", " ", "c">>}

\* what stands to the left of `|>` ...
PipeLeft ==
    {<<"a">>, <<"1">>, <<"1", " ", "+", " ", "2">>, <<"a", ".", "b">>, <<"-", "a">>,
     <<"g", "(", "a", ")">>, <<"[", "a", "]">>, <<"a", "|", ">", "g">>,
     <<"a", "|", ">", "g", "(", "x", ")">>, <<"(", "a", "?", "b", ":", "c", ")">>}
    \cup {Join(<<<<"a">>, Chars(op), <<"b">>>>) : op \in BinaryOps}

\* ... and to the right of it
PipeRight ==
    {<<"f">>, Chars("inc"), <<"f", "(", ")">>, <<"f", "(", "x", ")">>,
     <<"f", "(", "x", ",", " ", "y", ")">>, <<"o", ".", "m">>, <<"o", ".", "m", "(", "x", ")">>,
     <<"f", "(", "x", ")", "(", "y", ")">>, <<"(", "f", ")">>,
     <<"f", "+", "1">>, <<"-", "f">>, <<"1">>}

PipeInputs ==
    {Join(<<l, sp, Chars("|>"), sp, r>>) : l \in PipeLeft, r \in PipeRight, sp \in Spaces}

\* trivia that may stand before and after an expression
Trivia ==
    {<<>>, <<" ">>, <<" ", TAB>>, <<LF>>, <<"/", "/", "c">>, <<"/", "/", "c", LF>>,
     <<"/", "*", "c", "*", "/">>, <<" ", "/", "*", "*", "/", " ">>}

\* expressions whose first or last token is, or is not, a parenthesis
SpanTexts ==
    {<<"a">>, Chars("x1"), <<"1", ".", "5">>, <<"'", "a", "'">>, Chars("true"), Chars("null"),
     <<"[", "a", ",", " ", "1", "]">>, <<"a", " ", "+", " ", "b">>, <<"-", " ", "a">>,
     <<"a", ".", "b">>, <<"f", "(", "a", ")">>, <<"f", " ", "(", " ", ")">>,
     <<"a", " ", "?", " ", "b", " ", ":", " ", "c">>, <<"a", " ", "|", ">", " ", "f">>,
     <<"(", "a", ")">>, <<"(", " ", "a", " ", ")">>, <<"(", "1", ")">>,
     <<"(", "1", " ", "+", " ", "2", ")">>, <<"(", "a", ")", " ", "+", " ", "b">>,
     <<"a", " ", "+", " ", "(", "b", ")">>, <<"(", "a", ")", ".", "b">>,
     <<"(", "f", ")", "(", "a", ")">>, <<"-", "(", "a", ")">>,
     <<"a", " ", "?", " ", "b", " ", ":", " ", "(", "c", ")">>,
     <<"(", "a", ")", " ", "?", " ", "b", " ", ":", " ", "c">>,
     <<"a", " ", "|", ">", " ", "(", "f", ")">>, <<"(", "a", ")", " ", "|", ">", " ", "f">>}

SpanInputs == {Join(<<before, e, after>>) : before \in Trivia, e \in SpanTexts, after \in Trivia}

Quotes == {SingleQuote, DoubleQuote}

EscapeAlphabet == {Backslash, "0", "1", "n", "q"}

StringBodies ==
    SeqsUpTo(EscapeAlphabet, MaxBody)
    \cup {<<Backslash, "0", "x">>, <<Backslash, "8">>, <<Backslash, "0", "1">>,
          <<Backslash, "9">>, <<Backslash, "0", "9">>, <<"q", Backslash, "0", "9", "q">>,
          <<Backslash, "x", "4", "1">>, <<Backslash, "x", "4">>,
          <<Backslash, "u", "0", "0", "4", "1">>, <<Backslash, "u", "{", "4", "1", "}">>,
          <<Backslash, "u", "{", "1", "1", "0", "0", "0", "0", "}">>,
          <<Backslash, LF, "a">>, <<Backslash, SingleQuote>>, <<"a", LF>>}

\* what a string literal can stand in: [before, after]
StringContexts ==
    {<<<<>>, <<>>>>, <<<<" ">>, <<" ">>>>, <<<<"f", "(">>, <<")">>>>,
     <<<<"[", "a", ",">>, <<"]">>>>, <<<<"a", "?">>, <<":", "b">>>>,
     <<<<"(">>, <<")", ".", "b">>>>}

StringInputs ==
    {Join(<<c[1], <<q>>, body, <<q>>, c[2]>>) :
        c \in StringContexts, q \in Quotes, body \in StringBodies}

\* tokens in any order, most of them not an expression
Pieces == {<<"a">>, <<"1">>, <<" ">>, <<"+">>, <<")">>, <<"?">>, <<":">>, <<"'">>, <<".">>}

SoupInputs == {Join(ps) : ps \in SeqsUpTo(Pieces, MaxPieces)}

\* texts that stop short or run on
JunkInputs ==
    {<<"a", " ", "/", "*">>, <<"a", " ", "/", "*", "c">>, <<"[", "a", ",">>, <<"[", "a", ",", "]">>,
     <<"a", ".">>, <<"a", ".", "1">>, <<"a", " ", "|", ">">>, <<"|", ">", "f">>,
     <<"a", " ", "=", " ", "1">>, <<"a", "]">>, <<"a", ",", "b">>, <<"f", "(", "a", ",", ")">>,
     <<"t", "r", "u", "e", "1">>, <<"1", "a">>, <<"1", ".">>, <<"a", " ", "b">>,
     <<"a", "&", "b">>, <<"a", "|", "b">>, <<"a", " ", "/", "/">>,
     <<"(">>, <<"(", "a">>, <<"(", ")">>, <<"(", "a", ")", ")">>, <<")", "(">>, <<"(", "a", " ", "b", ")">>,
     <<"(", "a", ")", "(">>, <<"(", "+", ")">>, <<"a", "(">>, <<"a", "(", "b">>, <<"[">>, <<"[", "]">>}

ParseInputs ==
    BinaryInputs \cup MixedInputs \cup PipeInputs \cup SpanInputs \cup StringInputs
    \cup SoupInputs \cup JunkInputs

\* ParseOptions (parse.ts:32-35)
ParseOptions(throwOnError) == [throwOnError |-> throwOnError]

ParseInit ==
    /\ input \in ParseInputs
    /\ opts \in {ParseOptions(TRUE), ParseOptions(FALSE)}
    /\ pc = "parse"
    /\ ast = NoNode
    /\ env = Undefined
    /\ ctx = [env |-> EmptyEnv, steps |-> 0, depth |-> 0, maxSteps |-> 0,
              maxDepth |-> 0, maxArrayElements |-> 0]
    /\ cur = NoNode
    /\ ret = Success(Undefined)
    /\ stack = <<>>
    /\ result = NoResult
    /\ visits = <<>>
    /\ returns = <<>>
    /\ calls = <<>>
    /\ gets = 0
    /\ parsed = NoParse
    /\ history = <<>>

\* parseExpression(input, opts) (parse.ts:337-354)
parseExpression ==
    /\ pc = "parse"
    /\ parsed' = parseExpressionOf(input, opts.throwOnError)
    /\ pc' = "done"
    /\ UNCHANGED <<ast, env, opts, ctx, cur, ret, stack, result, visits, returns, calls,
                   gets, input, history>>

ParseNext == parseExpression

ParseSpec == ParseInit /\ [][ParseNext]_vars

(***************************************************************************)
(* evaluateExpression: parse, then evaluate (eval.ts:438-456).             *)
(***************************************************************************)
\* texts that parse: one for every kind of node and every way an evaluation ends
AcceptedTexts ==
    {<<"1">>, <<SingleQuote, "a", SingleQuote>>, <<"x">>, <<"[", "x", ",", " ", "1", "]">>,
     <<"-", "x">>, <<"!", "u">>, <<"x", " ", "+", " ", "1">>,
     <<"x", " ", "&", "&", " ", "s">>, <<"u", " ", "|", "|", " ", "x">>,
     <<"x", "s", ".", "l", "e", "n", "g", "t", "h">>, <<"i", "n", "c", "(", "x", ")">>,
     <<"u", "s", "e", "r", ".", "g", "e", "t", "N", "a", "m", "e", "(", ")">>,
     <<"b", "o", "o", "m", "(", ")">>, <<"x", " ", "?", " ", "s", " ", ":", " ", "u">>,
     <<"u", " ", "?", " ", "s", " ", ":", " ", "x">>,
     <<"x", " ", "|", ">", " ", "i", "n", "c">>,
     <<"(", "x", " ", "+", " ", "1", ")", " ", "*", " ", "2">>,
     <<"[", "1", ",", " ", "-", "x", "]">>,
     <<"i", "n", "c", "(", "x", ")", " ", "|", ">", " ", "i", "n", "c">>,
     <<"x", " ", "=", "=", " ", "1">>,
     <<"g", "e", "t", "I", "n", "c", "(", ")", "(", "x", ")">>}

\* texts that do not parse
RejectedTexts ==
    {<<>>, <<"(">>, <<"1", " ", "+">>, <<"x", " ", ")">>, <<" ", " ", " ">>,
     <<"x", " ", "?", " ", "s">>, <<SingleQuote, Backslash, "1", SingleQuote>>,
     <<"[", "x", ",">>, <<"x", " ", "|", ">">>, <<SingleQuote, "a">>}

ExprInputs == AcceptedTexts \cup RejectedTexts

\* no env, a valid env, a value that is no env, and envs with a getter
ExprEnvs ==
    {Undefined, Null, MainEnv}
    \cup {Obj(1, "Object", <<Prop("x", acc), Prop("inc", Fn("inc"))>>) :
            acc \in {Accessor(TRUE, Undefined), Accessor(FALSE, Num(1))}}

\* EvaluateExpressionOptions (eval.ts:430-435)
ExprOptions(maxSteps, maxDepth, throwOnError, throwOnParseError) ==
    [Options(maxSteps, maxDepth, DefaultMaxArrayElements, throwOnError)
        EXCEPT !.throwOnParseError = throwOnParseError]

\* an ExpParseError thrown by parseExpression and left to the caller
ThrewParseError(error) ==
    [status |-> "threw", exception |-> "ExpParseError",
     res |-> [evalError(error.message, NoSpan, -1) EXCEPT !.error.index = error.index]]

\* the failure evaluateExpression makes of a ParseError
parseFailureResult(error) ==
    [evalError(error.message, NoSpan, 0) EXCEPT !.error.index = error.index]

ExprInit ==
    /\ input \in ExprInputs
    /\ env \in ExprEnvs
    /\ opts \in {ExprOptions(s, d, t, p) :
                    s \in {2, DefaultMaxSteps}, d \in {1, DefaultMaxDepth},
                    t \in BOOLEAN, p \in BOOLEAN}
    /\ pc = "expression"
    /\ ast = NoNode
    /\ ctx = [env |-> EmptyEnv, steps |-> 0, depth |-> 0, maxSteps |-> 0,
              maxDepth |-> 0, maxArrayElements |-> 0]
    /\ cur = NoNode
    /\ ret = Success(Undefined)
    /\ stack = <<>>
    /\ result = NoResult
    /\ visits = <<>>
    /\ returns = <<>>
    /\ calls = <<>>
    /\ gets = 0
    /\ parsed = NoParse
    /\ history = <<>>

\* a parse failure handed to the evaluator's error policy
evaluateExpressionRethrowing ==
    /\ pc = "expression"
    /\ parsed' = parseExpressionOf(input, opts.throwOnParseError)
    /\ IF parsed'.status = "threw"
       THEN /\ result' = ThrewParseError(parsed'.error)
            /\ pc' = "done"
            /\ UNCHANGED ast
       ELSE IF ~parsed'.success
       THEN /\ result' = IF opts.throwOnError
                         THEN ThrewEvalError(parseFailureResult(parsed'.error))
                         ELSE Returned(parseFailureResult(parsed'.error))
            /\ pc' = "done"
            /\ UNCHANGED ast
       ELSE /\ ast' = parsed'.value
            /\ pc' = "ready"
            /\ UNCHANGED result
    /\ UNCHANGED <<env, opts, ctx, cur, ret, stack, visits, returns, calls, gets, input,
                   history>>

\* evaluateExpression up to its call of evaluateAst (eval.ts:438-455)
evaluateExpression ==
    /\ pc = "expression"
    /\ parsed' = parseExpressionOf(input, opts.throwOnParseError)
    /\ IF parsed'.status = "threw"
       THEN /\ result' = ThrewParseError(parsed'.error)
            /\ pc' = "done"
            /\ UNCHANGED ast
       ELSE IF ~parsed'.success
       THEN /\ result' = Returned(parseFailureResult(parsed'.error))
            /\ pc' = "done"
            /\ UNCHANGED ast
       ELSE /\ ast' = parsed'.value
            /\ pc' = "ready"
            /\ UNCHANGED result
    /\ UNCHANGED <<env, opts, ctx, cur, ret, stack, visits, returns, calls, gets, input,
                   history>>

ExprNext == evaluateExpression \/ Next

ExprSpec == ExprInit /\ [][ExprNext]_vars

(***************************************************************************)
(* Reading the history of an evaluation.                                   *)
(***************************************************************************)
Visited(n) == \E i \in 1..Len(visits) : visits[i] = n.span
VisitIndex(n) == CHOOSE i \in 1..Len(visits) : visits[i] = n.span
HasReturned(n) == \E i \in 1..Len(returns) : returns[i].span = n.span
ReturnOf(n) == returns[CHOOSE i \in 1..Len(returns) : returns[i].span = n.span]
ReturnedValue(n) == HasReturned(n) /\ ReturnOf(n).res.success
\* nothing of the subtree m was visited and no call of it was made
Untouched(m) ==
    \A k \in Nodes(m) :
        /\ ~Visited(k)
        /\ \A i \in 1..Len(calls) : calls[i].span # k.span
Finished == result.status # "pending"
FailedWith(message) ==
    Finished /\ ~result.res.success /\ result.res.error.message = message

(***************************************************************************)
(* C1.  Step budget bound: while an evaluation has not failed, and when it *)
(* succeeds, the step counter is at most maxSteps; a failure with          *)
(* 'evaluation budget exceeded' reports a step count strictly greater than *)
(* maxSteps; with maxSteps = 0 every evaluation that starts fails with     *)
(* 'evaluation budget exceeded'.                                           *)
(***************************************************************************)
C1_StepBudgetBound ==
    /\ pc = "enter" => ctx.steps <= opts.maxSteps
    /\ (pc = "return" /\ ret.success) => ctx.steps <= opts.maxSteps
    /\ (Finished /\ result.res.success) => ctx.steps <= opts.maxSteps
    /\ FailedWith("evaluation budget exceeded") => result.res.error.steps > opts.maxSteps
    /\ (Finished /\ visits # <<>> /\ opts.maxSteps = 0)
          => FailedWith("evaluation budget exceeded")

C1_Witness ==
    /\ FailedWith("evaluation budget exceeded")
    /\ opts.maxSteps >= 2
    /\ result.res.error.steps = opts.maxSteps + 1
    /\ Len(visits) = opts.maxSteps + 1

(***************************************************************************)
(* C2.  Laziness: once the left operand A of `A && B` returned a falsy     *)
(* value (of `A || B` a truthy value), no node of B is ever visited and no *)
(* call of B is made, and the node returns exactly what A returned, at the *)
(* step count A returned at; once the test of `T ? C : D` returned, no     *)
(* node of the untaken branch is visited and no call of it is made.        *)
(***************************************************************************)
C2_Laziness ==
    \A n \in Nodes(ast) :
        /\ ( /\ n.kind = "binary"
             /\ n.op \in {"&&", "||"}
             /\ ReturnedValue(n.left)
             /\ (n.op = "&&") = ~isTruthy(ReturnOf(n.left).res.value) )
           => /\ Untouched(n.right)
              /\ HasReturned(n) =>
                    /\ ReturnOf(n).res = ReturnOf(n.left).res
                    /\ ReturnOf(n).steps = ReturnOf(n.left).steps
        /\ (n.kind = "conditional" /\ ReturnedValue(n.test))
           => Untouched(IF isTruthy(ReturnOf(n.test).res.value)
                        THEN n.alternate ELSE n.consequent)

C2_Witness ==
    /\ Finished
    /\ ast.kind = "binary" /\ ast.op = "||"
    /\ ast.left.kind = "string" /\ ast.right = Annot(Call(Id("boom"), <<>>), 2)
    /\ result = Returned(Success(Str(<<"a">>)))
    /\ ctx.steps = 2
    /\ calls = <<>>

(***************************************************************************)
(* C3.  Evaluation order: the right operand of a binary node is entered    *)
(* only after the left operand returned; an array element or a call        *)
(* argument is entered only after every element or argument before it      *)
(* returned; an argument is entered only after the callee (the object, for *)
(* a member callee) returned; and of two host invocations the earlier one  *)
(* belongs to a call that lies inside the later call or wholly to its left *)
(* in the source.                                                          *)
(***************************************************************************)
EvaluatedBefore(a, b) ==
    Visited(b) => HasReturned(a) /\ ReturnOf(a).steps < VisitIndex(b)

InOrder(es) ==
    \A i, j \in 1..Len(es) : i < j => EvaluatedBefore(es[i], es[j])

C3_EvaluationOrder ==
    /\ \A n \in Nodes(ast) :
          /\ n.kind = "binary" => EvaluatedBefore(n.left, n.right)
          /\ n.kind = "array" => InOrder(n.elements)
          /\ n.kind = "call" =>
                /\ InOrder(n.args)
                /\ \A i \in 1..Len(n.args) :
                      EvaluatedBefore(IF n.callee.kind = "member" THEN n.callee.object
                                      ELSE n.callee, n.args[i])
    /\ \A i, j \in 1..Len(calls) :
          i < j => LET a == calls[i].span
                       b == calls[j].span
                   IN  \/ a.end <= b.start
                       \/ b.start <= a.start /\ a.end <= b.end /\ a # b

C3_Witness ==
    /\ Finished
    /\ ast.kind = "call" /\ Len(ast.args) = 2
    /\ Len(calls) = 3
    /\ calls[1].span = ast.args[1].span
    /\ calls[2].span = ast.args[2].span
    /\ calls[3].span = ast.span

(***************************************************************************)
(* C4.  Forbidden members: a member access or member call whose property   *)
(* is `__proto__`, `prototype` or `constructor` never returns a value, and *)
(* once its object has been evaluated to any value it returns the error    *)
(* 'forbidden member access'.                                              *)
(***************************************************************************)
ForbiddenAccess(n) ==
    \/ n.kind = "member" /\ n.property \in {"__proto__", "prototype", "constructor"}
    \/ /\ n.kind = "call"
       /\ n.callee.kind = "member"
       /\ n.callee.property \in {"__proto__", "prototype", "constructor"}

ObjectOf(n) == IF n.kind = "member" THEN n.object ELSE n.callee.object

C4_ForbiddenMembers ==
    \A n \in Nodes(ast) :
        (ForbiddenAccess(n) /\ HasReturned(n)) =>
            /\ ~ReturnOf(n).res.success
            /\ ReturnedValue(ObjectOf(n)) =>
                  ReturnOf(n).res.error.message = "forbidden member access"

C4_Witness ==
    /\ FailedWith("forbidden member access")
    /\ ast.kind = "member" /\ ast.property = "constructor"
    /\ ReturnedValue(ast.object)
    /\ ReturnOf(ast.object).res.value.t = "array"

(***************************************************************************)
(* C5.  Member access exposes own data only: a member access with a        *)
(* property that is not forbidden, on an object value o, returns o's       *)
(* length for `length` on an array and undefined for any other property of *)
(* an array; the value of the own property on a plain or proto-null object *)
(* and undefined when the object has no own property of that name;         *)
(* undefined on every other value.                                         *)
(***************************************************************************)
OwnDataValue(o, p) ==
    LET own == {i \in 1..Len(o.props) : o.props[i].k = p}
        slot == o.props[CHOOSE i \in own : TRUE].v
    IN  IF own = {} THEN Undefined
        ELSE IF slot.t = "accessor" THEN slot.ret ELSE slot

ExposedMember(o, p) ==
    CASE o.t = "array" -> IF p = "length" THEN Num(Len(o.items)) ELSE Undefined
      [] o.t = "object" /\ o.proto \in {"Object", "null"} -> OwnDataValue(o, p)
      [] OTHER -> Undefined

C5_OwnDataOnly ==
    \A n \in Nodes(ast) :
        ( /\ n.kind = "member"
          /\ n.property \notin {"__proto__", "prototype", "constructor"}
          /\ ReturnedValue(n.object)
          /\ HasReturned(n) )
        => ReturnOf(n).res = Success(ExposedMember(ReturnOf(n.object).res.value, n.property))

C5_Witness ==
    /\ Finished
    /\ ast = Annot(Member(Id("user"), "toString"), 0)
    /\ env = MainEnv
    /\ result = Returned(Success(Undefined))

(***************************************************************************)
(* C7.  Environment validation precedes evaluation: when the env is not a  *)
(* plain or proto-null object, or holds (at any depth) a value outside the *)
(* admissible value model, no node is visited, no function of the env is   *)
(* called (no host function, no getter), and evaluateAst fails with an env *)
(* error that has steps 0 and no span (thrown as ExpEvalError when         *)
(* throwOnError is set, returned otherwise).                               *)
(***************************************************************************)
RECURSIVE ContainsAccessor(_)
ContainsAccessor(v) ==
    CASE v.t = "accessor" -> TRUE
      [] v.t = "array" -> \E i \in 1..Len(v.items) : ContainsAccessor(v.items[i])
      [] v.t = "object" -> \E i \in 1..Len(v.props) : ContainsAccessor(v.props[i].v)
      [] OTHER -> FALSE

\* v holds, in a data property at any depth, an object that is neither an
\* array nor a plain or proto-null object
RECURSIVE HoldsForeign(_)
HoldsForeign(v) ==
    CASE v.t = "array" -> \E i \in 1..Len(v.items) : HoldsForeign(v.items[i])
      [] v.t = "object" ->
           \/ v.proto \notin {"Object", "null"}
           \/ \E i \in 1..Len(v.props) : HoldsForeign(v.props[i].v)
      [] OTHER -> FALSE

InvalidEnv == env.t # "undefined" /\ (env.t # "object" \/ HoldsForeign(env))

EnvErrorFirst ==
    /\ visits = <<>> /\ calls = <<>> /\ returns = <<>> /\ ctx.steps = 0
    /\ gets = 0
    /\ pc \in {"ready", "done"}
    /\ pc = "done" =>
          /\ result.status = (IF opts.throwOnError THEN "threw" ELSE "returned")
          /\ result.exception = (IF opts.throwOnError THEN "ExpEvalError" ELSE "")
          /\ ~result.res.success
          /\ result.res.error.steps = 0
          /\ result.res.error.span = NoSpan
          /\ result.res.error.message \in
                {"env must be a plain object (or proto-null object)"}
                \cup {"env['" \o env.props[i].k \o "'] is not a supported runtime value"
                      : i \in 1..(IF env.t = "object" THEN Len(env.props) ELSE 0)}

C7_EnvValidationFirst == InvalidEnv => EnvErrorFirst

\* C7 restricted to envs made of data properties only, where it holds: the
\* violations of C7 all run through a getter (see C8)
C7_DataEnvValidationFirst == (InvalidEnv /\ ~ContainsAccessor(env)) => EnvErrorFirst

(***************************************************************************)
(* C6.  Unknown identifiers: under the default options, evaluating an      *)
(* identifier that is not an own key of a valid env fails (with an         *)
(* unknown-identifier error); inherited keys count as absent.              *)
(***************************************************************************)
ValidEnv == env.t = "undefined" \/ (env.t = "object" /\ ~ContainsAccessor(env) /\ ~HoldsForeign(env))

OwnKey(e, name) == e.t = "object" /\ \E i \in 1..Len(e.props) : e.props[i].k = name

C6_UnknownIdentifierFails ==
    ( /\ Finished
      /\ ValidEnv
      /\ opts = DefaultOptions
      /\ ast.kind = "identifier"
      /\ ~OwnKey(env, ast.name) )
    => ~result.res.success

(***************************************************************************)
(* C8.  Accessor rejection without invocation: with an env that has an     *)
(* enumerable accessor property (top level, nested in an object, or at an  *)
(* array index) no getter ever runs, and evaluateAst fails with a          *)
(* 'must be a data property' error.                                        *)
(***************************************************************************)
DataPropertyMessages ==
    {"env['x'] must be a data property",
     "env['y'] must be a data property",
     "env['user']['plan'] must be a data property",
     "env['xs'][0] must be a data property"}

C8_AccessorRejectedUninvoked ==
    ContainsAccessor(env) =>
        /\ gets = 0
        /\ pc = "done" =>
              /\ result.exception \in {"", "ExpEvalError"}
              /\ ~result.res.success
              /\ result.res.error.message \in DataPropertyMessages

(***************************************************************************)
(* C9.  Reserved `std`: when the host env has an own key `std`, the        *)
(* evaluation of an expression that references the identifier `std` fails. *)
(***************************************************************************)
ReferencesStd == \E n \in Nodes(ast) : n.kind = "identifier" /\ n.name = "std"

C9_StdReserved ==
    (Finished /\ OwnKey(env, "std") /\ ReferencesStd) => ~result.res.success

(***************************************************************************)
(* C10.  Built-in `std`: with a valid env that has no key `std`, the       *)
(* identifier `std` evaluates to the core library table (not undefined),   *)
(* and `std.len(s)` for a string literal s returns the length of s.        *)
(***************************************************************************)
\* std.len of the core library (unnamed/part_014:22-25): [ok, v, msg]
std_len(x) ==
    IF x.t = "string" THEN Ok(Num(Len(x.s)))
    ELSE IF x.t = "array" THEN Ok(Num(Len(x.items)))
    ELSE Throw("std.len(x) expects a string or array")

IsStdLenOfString(e) ==
    /\ e.kind = "call"
    /\ e.callee.kind = "member"
    /\ e.callee.property = "len"
    /\ e.callee.object.kind = "identifier" /\ e.callee.object.name = "std"
    /\ Len(e.args) = 1
    /\ e.args[1].kind = "string"

C10_StdAlwaysAvailable ==
    (Finished /\ ValidEnv /\ ~OwnKey(env, "std") /\ opts = DefaultOptions) =>
        /\ (ast.kind = "identifier" /\ ast.name = "std")
              => (result.res.success /\ result.res.value.t = "object")
        /\ IsStdLenOfString(ast)
              => result = Returned(Success(std_len(ast.args[1].value).v))


(***************************************************************************)
(* C11.  Safe equality for non-primitives: when at least one operand value *)
(* of `a == b` is an object, an array or a function, the result is true    *)
(* exactly when both operands are the same reference (so it is false       *)
(* against every primitive); the comparison itself succeeds without        *)
(* 'expected primitive', calls nothing and runs no getter; `a != b` gives  *)
(* the negation.                                                           *)
(***************************************************************************)
IsReference(v) == v.t \in {"object", "array", "function"}

SameReference(a, b) ==
    /\ a.t = b.t
    /\ a.t \in {"object", "array"} => a.id = b.id
    /\ a.t = "function" => a.name = b.name

\* the root is an equality test whose operands and itself have returned
EqualityDone ==
    /\ ast \in EqualityAsts
    /\ ReturnedValue(ast.left) /\ ReturnedValue(ast.right)
    /\ HasReturned(ast)

LeftValue == ReturnOf(ast.left).res.value
RightValue == ReturnOf(ast.right).res.value

C11_SafeEquality ==
    (EqualityDone /\ (IsReference(LeftValue) \/ IsReference(RightValue)))
        => /\ ReturnOf(ast).res =
                Success(Bool(IF ast.op = "==" THEN SameReference(LeftValue, RightValue)
                             ELSE ~SameReference(LeftValue, RightValue)))
           /\ calls = <<>>
           /\ gets = 0

\* `[] == ""` has been evaluated: the host language would answer true
C11_Witness ==
    /\ EqualityDone /\ Finished
    /\ ast.op = "=="
    /\ LeftValue.t = "array" /\ LeftValue.items = <<>>
    /\ RightValue = Str(<<>>)
    /\ result = Returned(Success(Bool(FALSE)))

(***************************************************************************)
(* C12.  Loose equality on primitive pairs: identical primitives are equal *)
(* (NaN excepted); null and undefined are equal to each other and to no    *)
(* other primitive; a boolean operand is converted to 0 / 1 and the        *)
(* comparison repeated; a string against a number is compared after        *)
(* ToNumber of the string; two strings or two numbers compare strictly.    *)
(***************************************************************************)
IsPrimitiveValue(v) == v.t \in {"undefined", "null", "boolean", "number", "string"}

IsNullish(v) == v.t \in {"undefined", "null"}

BooleanAsNumber(v) == IF v.t = "boolean" THEN (IF v.b THEN Num(1) ELSE Num(0)) ELSE v

\* the equality of two primitives as the rules above give it
PrimitiveEquals(a, b) ==
    LET x == BooleanAsNumber(a)
        y == BooleanAsNumber(b)
    IN  IF IsNullish(a) \/ IsNullish(b) THEN IsNullish(a) /\ IsNullish(b)
        ELSE IF x.t = "string" /\ y.t = "string" THEN x.s = y.s
        ELSE IF x.t = "string" THEN NumEq(StringToNumber(x.s), y)
        ELSE IF y.t = "string" THEN NumEq(x, StringToNumber(y.s))
        ELSE NumEq(x, y)

\* answers of `==` in the host language: <<left, right, answer>>
KnownEqualities ==
    {<<Null, Num(0), FALSE>>, <<Null, Bool(FALSE), FALSE>>, <<Null, Undefined, TRUE>>,
     <<Undefined, Str(<<>>), FALSE>>, <<NaN, NaN, FALSE>>, <<Num(1), Num(1), TRUE>>,
     <<Bool(TRUE), Num(1), TRUE>>, <<Bool(TRUE), Str(<<"1">>), TRUE>>,
     <<Bool(FALSE), Str(<<>>), TRUE>>, <<Bool(TRUE), Str(<<"a">>), FALSE>>,
     <<Str(<<>>), Num(0), TRUE>>, <<Str(<<" ", "1">>), Num(1), TRUE>>,
     <<Str(<<"1">>), Str(<<" ", "1">>), FALSE>>, <<Str(<<"a">>), Num(0), FALSE>>,
     <<Str(<<"a">>), Str(<<"a">>), TRUE>>, <<Num(0), Bool(FALSE), TRUE>>}

C12_PrimitiveEquality ==
    (EqualityDone /\ IsPrimitiveValue(LeftValue) /\ IsPrimitiveValue(RightValue))
        => LET equal == PrimitiveEquals(LeftValue, RightValue)
           IN  /\ ReturnOf(ast).res = Success(Bool(IF ast.op = "==" THEN equal ELSE ~equal))
               /\ \A k \in KnownEqualities :
                     (k[1] = LeftValue /\ k[2] = RightValue) => equal = k[3]

\* `true == "1"` has been evaluated: boolean to number, then string to number
C12_Witness ==
    /\ EqualityDone /\ Finished
    /\ ast.op = "=="
    /\ LeftValue = Bool(TRUE)
    /\ RightValue = Str(<<"1">>)
    /\ result = Returned(Success(Bool(TRUE)))

(***************************************************************************)
(* C13.  Host errors are contained: when a function called from an         *)
(* expression throws, the call node returns an error with the thrown       *)
(* message, the span of the call node and the step count of the call, and  *)
(* that error is the outcome of the evaluation: returned when throwOnError *)
(* is false, thrown as ExpEvalError otherwise; the host's own exception    *)
(* never leaves evaluateAst.                                               *)
(***************************************************************************)
CallThrew(c) == HostCall(c.fn, c.receiver, c.args).threw

HostError(c) == evalError(HostCall(c.fn, c.receiver, c.args).msg, c.span, c.steps)

C13_HostErrorsContained ==
    \A i \in 1..Len(calls) :
        CallThrew(calls[i]) =>
            /\ \E j \in 1..Len(returns) :
                  /\ returns[j].span = calls[i].span
                  /\ returns[j].res = HostError(calls[i])
            /\ pc = "return" => ret = HostError(calls[i])
            /\ Finished =>
                  result = (IF opts.throwOnError THEN ThrewEvalError(HostError(calls[i]))
                            ELSE Returned(HostError(calls[i])))

\* boom() threw below the root and its error came out of evaluateAst
C13_Witness ==
    /\ Finished /\ ~opts.throwOnError
    /\ calls # <<>>
    /\ calls[Len(calls)].fn = "boom"
    /\ calls[Len(calls)].span # ast.span
    /\ result.res.error.message = "kaboom"
    /\ result.res.error.span = calls[Len(calls)].span

(***************************************************************************)
(* C14.  Admissible results only: every value a node visit returns, and so *)
(* every value a successful evaluation returns, is recursively admissible  *)
(* (a primitive, a function, an array of admissible values, a plain or     *)
(* proto-null object of admissible values); a host function that returns   *)
(* a value inadmissible anywhere in its structure makes its call fail with *)
(* 'function returned an unsupported value'.                               *)
(***************************************************************************)
RECURSIVE AdmissibleValue(_)
AdmissibleValue(v) ==
    CASE v.t \in {"undefined", "null", "boolean", "number", "string", "function"} -> TRUE
      [] v.t = "array" -> \A i \in 1..Len(v.items) : AdmissibleValue(v.items[i])
      [] v.t = "object" ->
           /\ v.proto \in {"Object", "null"}
           /\ \A i \in 1..Len(v.props) : AdmissibleValue(v.props[i].v)
      [] v.t = "accessor" -> ~v.throws /\ AdmissibleValue(v.ret)
      [] OTHER -> FALSE

HostReturned(c) == HostCall(c.fn, c.receiver, c.args).v

CalleeNode(n) == IF n.callee.kind = "member" THEN n.callee.object ELSE n.callee

\* the callee of the call n has been resolved, to something not a function
ResolvedNonFunction(n) ==
    /\ n.kind = "call"
    /\ ReturnedValue(CalleeNode(n))
    /\ IF n.callee.kind = "member"
       THEN /\ n.callee.property \notin {"__proto__", "prototype", "constructor"}
            /\ ExposedMember(ReturnOf(CalleeNode(n)).res.value, n.callee.property).t # "function"
       ELSE ReturnOf(CalleeNode(n)).res.value.t # "function"

C15_NotCallableBeforeArgs ==
    \A n \in Nodes(ast) :
        ResolvedNonFunction(n) =>
            /\ \A i \in 1..Len(n.args) : Untouched(n.args[i])
            /\ \A i \in 1..Len(calls) : calls[i].span # n.span
            /\ HasReturned(n) =>
                  ReturnOf(n).res = evalError("attempted to call a non-function", n.span,
                                              ReturnOf(CalleeNode(n)).steps)
            /\ Finished => HasReturned(n)

\* user.missing(boom()) and x(boom()) failed without boom being called
C15_Witness ==
    /\ Finished
    /\ ast.kind = "call"
    /\ ResolvedNonFunction(ast)
    /\ Len(ast.args) = 1
    /\ ast.args[1].kind = "call"
    /\ ast.args[1].callee.kind = "identifier"
    /\ ast.args[1].callee.name = "boom"
    /\ calls = <<>>
    /\ FailedWith("attempted to call a non-function")

(***************************************************************************)
(* C16.  Array size limit: no element of an array literal with more than   *)
(* maxArrayElements elements is ever visited or calls anything, and the    *)
(* literal, once its visit passed the budget and depth checks, returns     *)
(* 'array literal too large' with its own span at the step of its own      *)
(* visit; a literal with at most maxArrayElements elements never returns   *)
(* that error.                                                             *)
(***************************************************************************)
EntryFailures == {"evaluation budget exceeded", "evaluation recursion limit exceeded"}

\* the nodes evalExpr is called on: all but the member callee of a call
IsVisitable(n) ==
    ~\E c \in Nodes(ast) : c.kind = "call" /\ c.callee.kind = "member" /\ c.callee = n

\* the visits in progress when the visit of n begins
Enclosing(n) == {m \in Nodes(ast) : m # n /\ n \in Nodes(m) /\ IsVisitable(m)}

Depth(n) == Cardinality(Enclosing(n))

\* the visit of n passes the budget and the depth checks
PassesEntry(n) == VisitIndex(n) <= opts.maxSteps /\ Depth(n) <= opts.maxDepth

Oversized(n) == n.kind = "array" /\ Len(n.elements) > opts.maxArrayElements

C16_ArraySizeLimit ==
    \A n \in Nodes(ast) :
        n.kind = "array" =>
            IF Oversized(n)
            THEN /\ \A i \in 1..Len(n.elements) : Untouched(n.elements[i])
                 /\ Visited(n) => HasReturned(n)
                 /\ HasReturned(n) =>
                       /\ ~ReturnOf(n).res.success
                       /\ ReturnOf(n).res.error.span = n.span
                       /\ ReturnOf(n).res.error.steps = VisitIndex(n)
                       /\ ReturnOf(n).res.error.message \in
                             EntryFailures \cup {"array literal too large"}
                       /\ PassesEntry(n)
                             => ReturnOf(n).res.error.message = "array literal too large"
            ELSE \A j \in 1..Len(returns) :
                     ~( /\ ~returns[j].res.success
                        /\ returns[j].res.error.message = "array literal too large"
                        /\ returns[j].res.error.span = n.span )

\* [boom(), 1] under maxArrayElements = 1: rejected, boom never called
C16_Witness ==
    /\ Finished
    /\ Oversized(ast)
    /\ ast.elements[1].kind = "call"
    /\ calls = <<>>
    /\ visits = <<ast.span>>
    /\ result = Returned(evalError("array literal too large", ast.span, 1))

(***************************************************************************)
(* C17.  Recursion limit: a node visit that begins within the step budget  *)
(* while more than maxDepth enclosing visits are in progress returns       *)
(* 'evaluation recursion limit exceeded' with the node's span, and nothing *)
(* below the node is visited; that error is only ever raised for a node    *)
(* with more than maxDepth enclosing visits; so with maxDepth = 0 an       *)
(* expression with a nested operand fails with it and a lone literal       *)
(* succeeds.                                                               *)
(***************************************************************************)
RecursionError(n) ==
    evalError("evaluation recursion limit exceeded", n.span, VisitIndex(n))

\* n has an operand that is evaluated whatever the values are
HasNestedOperand(n) ==
    \/ n.kind \in {"unary", "binary", "member", "call", "conditional"}
    \/ n.kind = "array" /\ n.elements # <<>> /\ ~Oversized(n)

C17_RecursionLimit ==
    /\ \A n \in Nodes(ast) :
          (Visited(n) /\ VisitIndex(n) <= opts.maxSteps /\ Depth(n) > opts.maxDepth)
              => /\ HasReturned(n)
                 /\ ReturnOf(n).res = RecursionError(n)
                 /\ \A m \in Nodes(n) \ {n} : Untouched(m)
    /\ \A j \in 1..Len(returns) :
          ( /\ ~returns[j].res.success
            /\ returns[j].res.error.message = "evaluation recursion limit exceeded" )
              => \E n \in Nodes(ast) :
                    /\ n.span = returns[j].res.error.span
                    /\ Depth(n) > opts.maxDepth
    /\ (Finished /\ visits # <<>> /\ opts.maxDepth = 0 /\ opts.maxSteps >= 2 /\ ~Oversized(ast))
          => IF HasNestedOperand(ast)
             THEN result = Returned(RecursionError(FirstChild(ast)))
             ELSE result.res.success

\* !!x under maxDepth = 1: the innermost operand is refused at depth 2
C17_Witness ==
    /\ Finished
    /\ opts.maxDepth = 1
    /\ ast.kind = "unary" /\ ast.expr.kind = "unary"
    /\ visits = <<ast.span, ast.expr.span, ast.expr.expr.span>>
    /\ result = Returned(evalError("evaluation recursion limit exceeded",
                                   ast.expr.expr.span, 3))

(***************************************************************************)
(* C18.  Binary `+`: with a string among the two operand values the result *)
(* is ToString(left) followed by ToString(right), otherwise it is          *)
(* ToNumber(left) + ToNumber(right); an operand that is an object, an      *)
(* array or a function makes `+`, the other arithmetic and comparison      *)
(* operators and unary `+` / `-` fail with 'expected primitive' at the     *)
(* operator's node.                                                        *)
(***************************************************************************)
CoercingBinaryOps == {"+", "-", "*", "/", "%", "<", "<=", ">", ">="}

\* both operands of the binary node n returned a value and n has returned
BinaryDone(n) ==
    /\ n.kind = "binary"
    /\ ReturnedValue(n.left) /\ ReturnedValue(n.right)
    /\ HasReturned(n)

UnaryDone(n) == n.kind = "unary" /\ ReturnedValue(n.expr) /\ HasReturned(n)

ExpectedPrimitive(n, operand) ==
    evalError("expected primitive", n.span, ReturnOf(operand).steps)

\* the sum of two primitives
PrimitiveSum(a, b) ==
    IF a.t = "string" \/ b.t = "string"
    THEN Str(toString(a).v.s \o toString(b).v.s)
    ELSE NumAdd(toNumber(a).v, toNumber(b).v)

\* answers of `+` in the host language: <<left, right, answer>>
KnownSums ==
    {<<Num(1), Str(<<"a">>), Str(<<"1", "a">>)>>,
     <<Str(<<"a">>), Null, Str(<<"a", "n", "u", "l", "l">>)>>,
     <<Str(<<>>), Num(0), Str(<<"0">>)>>,
     <<Bool(FALSE), Str(<<"a">>), Str(<<"f", "a", "l", "s", "e", "a">>)>>,
     <<Undefined, Str(<<>>), Str(<<"u", "n", "d", "e", "f", "i", "n", "e", "d">>)>>,
     <<Str(<<"a">>), Str(<<"a">>), Str(<<"a", "a">>)>>,
     <<Num(1), Num(1), Num(2)>>, <<Bool(TRUE), Num(1), Num(2)>>,
     <<Null, Num(1), Num(1)>>, <<Null, Null, Num(0)>>,
     <<Undefined, Num(1), NaN>>, <<Bool(TRUE), Bool(TRUE), Num(2)>>}

C18_BinaryPlus ==
    \A n \in Nodes(ast) :
        /\ (BinaryDone(n) /\ n.op \in CoercingBinaryOps) =>
              LET a == ReturnOf(n.left).res.value
                  b == ReturnOf(n.right).res.value
              IN  IF IsReference(a) \/ IsReference(b)
                  THEN ReturnOf(n).res = ExpectedPrimitive(n, n.right)
                  ELSE /\ ReturnOf(n).res.success
                       /\ n.op = "+" =>
                             /\ ReturnOf(n).res.value = PrimitiveSum(a, b)
                             /\ \A k \in KnownSums :
                                   (k[1] = a /\ k[2] = b) => ReturnOf(n).res.value = k[3]
        /\ (UnaryDone(n) /\ n.op \in {"+", "-"}) =>
              IF IsReference(ReturnOf(n.expr).res.value)
              THEN ReturnOf(n).res = ExpectedPrimitive(n, n.expr)
              ELSE ReturnOf(n).res.success

\* 'a' + xs has been evaluated: the array is not turned into text
C18_Witness ==
    /\ Finished
    /\ BinaryDone(ast)
    /\ ast.op = "+"
    /\ ReturnOf(ast.left).res.value = Str(<<"a">>)
    /\ ReturnOf(ast.right).res.value.t = "array"
    /\ result = Returned(evalError("expected primitive", ast.span, 3))

(***************************************************************************)
(* C19.  First error wins: from the moment a node visit has failed, no     *)
(* node is visited, no host function is called and no getter runs; every   *)
(* enclosing visit returns that same error, and it is the outcome of the   *)
(* evaluation (returned, or thrown as ExpEvalError under throwOnError).    *)
(***************************************************************************)
HasFailed == \E j \in 1..Len(returns) : ~returns[j].res.success

FirstFailure ==
    returns[CHOOSE j \in 1..Len(returns) :
                /\ ~returns[j].res.success
                /\ \A k \in 1..(j - 1) : returns[k].res.success].res

AfterFailure ==
    HasFailed =>
        /\ visits' = visits
        /\ calls' = calls
        /\ gets' = gets
        /\ \A j \in 1..Len(returns') :
              (j > Len(returns)) => returns'[j].res = FirstFailure
        /\ pc' = "return" => ret' = FirstFailure
        /\ pc' = "done" =>
              result' = (IF opts.throwOnError THEN ThrewEvalError(FirstFailure)
                         ELSE Returned(FirstFailure))
        /\ pc' \in {"return", "done"}

C19_FirstErrorWins == [][AfterFailure]_vars

\* [boom(), inc(1)] failed at its first element: inc was never visited or
\* called, and the error of boom() is what evaluateAst returned
C19_Witness ==
    /\ Finished
    /\ ast.kind = "array" /\ Len(ast.elements) = 2
    /\ ast.elements[1].kind = "call" /\ ast.elements[2].kind = "call"
    /\ Len(calls) = 1 /\ calls[1].fn = "boom"
    /\ Untouched(ast.elements[2])
    /\ HasFailed
    /\ result = Returned(FirstFailure)
    /\ FirstFailure.error.span = ast.elements[1].span

(***************************************************************************)
(* C20.  Errors carry diagnostics data: every failure of a node visit      *)
(* carries the span of a node of the AST and a steps value that is at      *)
(* least 1 and is the step counter at the moment of the failure; an        *)
(* evaluation that fails before any node is visited (invalid env) fails    *)
(* with an error that carries steps 0 and no span.                         *)
(***************************************************************************)
VisitFailuresCarrySpanAndSteps ==
    /\ \A j \in 1..Len(returns) :
          ~returns[j].res.success =>
              /\ \E n \in Nodes(ast) : IsVisitable(n) /\ n.span = returns[j].res.error.span
              /\ returns[j].res.error.steps >= 1
              /\ returns[j].res.error.steps = returns[j].steps
              /\ returns[j].res.error.steps = ctx.steps
    /\ (Finished /\ visits # <<>> /\ ~result.res.success) =>
          /\ result.exception # "Error"
          /\ result.res = FirstFailure

EarlyFailuresCarryStepsZero ==
    (Finished /\ visits = <<>>) =>
        /\ result.exception # "Error"
        /\ ~result.res.success
        /\ result.res.error.steps = 0
        /\ result.res.error.span = NoSpan

C20_ErrorsCarryDiagnostics == VisitFailuresCarrySpanAndSteps /\ EarlyFailuresCarryStepsZero

\* C20 for envs made of data properties only, where it holds: the one
\* failure without steps is the exception of a getter of the env (see C8)
C20_DataEnvDiagnostics ==
    ~ContainsAccessor(env) => C20_ErrorsCarryDiagnostics

(***************************************************************************)
(* C30.  Depth counter is balanced: when a node visit ends, whether it     *)
(* returns a value, returns an error result or caught an exception,        *)
(* ctx.depth is back to the value it had when the visit began.  So at      *)
(* every moment ctx.depth is the number of visits in progress that passed  *)
(* the limit check, it is never negative, and it is 0 when the top-level   *)
(* evaluation has returned.                                                *)
(***************************************************************************)
NodeAt(span) == CHOOSE n \in Nodes(ast) : n.span = span

\* the visits that passed the entry checks and have not ended
InProgress == {n \in Nodes(ast) : Visited(n) /\ ~HasReturned(n)}

LastReturn == returns[Len(returns)]

C30_DepthBalanced ==
    /\ ctx.depth = Cardinality(InProgress)
    /\ ctx.depth >= 0
    /\ pc = "return" /\ returns # <<>> => ctx.depth = Depth(NodeAt(LastReturn.span))
    /\ Finished => ctx.depth = 0

\* a host function threw three visits deep, the error went up through every
\* activation, and the evaluation returned it with the counter back at 0
C30_Witness ==
    /\ Finished /\ ~result.res.success
    /\ calls # <<>> /\ CallThrew(calls[Len(calls)])
    /\ Depth(NodeAt(calls[Len(calls)].span)) >= 1
    /\ Len(returns) >= 3
    /\ LastReturn.span = ast.span
    /\ ctx.depth = 0

(***************************************************************************)
(* C29.  Step accounting is per node: the step counter is incremented      *)
(* exactly once for every AST node the evaluator evaluates, including the  *)
(* member node that forms the callee of a member call, so an evaluation    *)
(* that evaluates k nodes (k = 3 for `obj.m()`) succeeds only if           *)
(* maxSteps >= k.                                                          *)
(***************************************************************************)
\* the member callees whose property has been looked up
ResolvedMemberCallees ==
    {n \in Nodes(ast) : /\ ~IsVisitable(n)
                        /\ ReturnedValue(n.object)}

\* the nodes evaluated so far, member callees counted with the others
EvaluatedNodes == {n \in Nodes(ast) : Visited(n)} \cup ResolvedMemberCallees

C29_StepPerEvaluatedNode ==
    /\ pc = "return" => ctx.steps = Cardinality(EvaluatedNodes)
    /\ Finished /\ result.res.success => opts.maxSteps >= Cardinality(EvaluatedNodes)

\* As the code has it: the step counter is incremented exactly once for
\* every node visit, that is every call of evalExpr; the member node that
\* forms the callee of a member call is not visited, only its object is; so
\* an evaluation that visits k nodes (k = 2 for `obj.m()`) succeeds only if
\* maxSteps >= k.
C29_StepPerVisit ==
    /\ ctx.steps = Len(visits)
    /\ \A i, j \in 1..Len(visits) : visits[i] = visits[j] => i = j
    /\ \A n \in Nodes(ast) : Visited(n) => IsVisitable(n)
    /\ \A n \in ResolvedMemberCallees : ~Visited(n)
    /\ Finished /\ result.res.success => opts.maxSteps >= Len(visits)

\* `obj.m()` succeeded on a budget of exactly two steps
C29_Witness ==
    /\ Finished /\ result.res.success
    /\ ast.kind = "call" /\ ast.callee.kind = "member"
    /\ ast.callee.object.kind = "identifier" /\ ast.args = <<>>
    /\ visits = <<ast.span, ast.callee.object.span>>
    /\ ctx.steps = 2 /\ opts.maxSteps = 2

(***************************************************************************)
(* C23.  Determinism and statelessness: two evaluateAst calls with the     *)
(* same AST, the same options and an env whose functions are pure have the *)
(* same outcome (the same value, or the same error message, span and       *)
(* steps); every call starts from steps = 0 and depth = 0, and nothing a   *)
(* previous call did, a failed or budget-exceeded one included, affects a  *)
(* later call.                                                             *)
(***************************************************************************)
\* the first visit of a call is about to begin
AtRootEntry == pc = "enter" /\ visits = <<>>

C23_Deterministic ==
    /\ AtRootEntry => ctx.steps = 0 /\ ctx.depth = 0 /\ stack = <<>> /\ cur = ast
    /\ \A i \in 1..Len(history) :
          /\ Finished => Outcome = history[i]
          /\ \A k \in 1..Len(visits) :
                k <= Len(history[i].visits) /\ visits[k] = history[i].visits[k]
          /\ \A k \in 1..Len(calls) :
                k <= Len(history[i].calls) /\ calls[k] = history[i].calls[k]

\* a call that ran out of budget in the middle of the tree, then the same
\* call again with the same failure
C23_Witness ==
    /\ history # <<>> /\ Finished
    /\ FailedWith("evaluation budget exceeded")
    /\ history[1].result = result
    /\ Len(visits) >= 2
    /\ result.res.error.steps = Len(visits)

(***************************************************************************)
(* C28.  Strict-mode digit escapes: inside a string literal a backslash    *)
(* followed by a decimal digit 1-9, or by 0 and another decimal digit,     *)
(* makes the whole parse fail (there is no falling back to an identity     *)
(* escape), whereas `\0` not followed by a decimal digit gives the single  *)
(* NUL character.                                                          *)
(***************************************************************************)
\* the literal with this body between quotes q, parsed on its own
LiteralOf(q, body) == parseExpressionOf(<<q>> \o body \o <<q>>, FALSE)

IsStringBody(q, body) == LiteralOf(q, body).success

BodyValue(q, body) == LiteralOf(q, body).value.value.s

\* at position k of the text: a backslash, then 1-9, or 0 and a digit
DigitEscapeAt(t, k) ==
    /\ k + 1 <= Len(t) /\ t[k] = Backslash /\ IsDigit(t[k + 1])
    /\ t[k + 1] # "0" \/ (k + 2 <= Len(t) /\ IsDigit(t[k + 2]))

\* at position k of the text: a backslash, then 0, then no digit
ZeroEscapeAt(t, k) ==
    /\ k + 2 <= Len(t) /\ t[k] = Backslash /\ t[k + 1] = "0" /\ ~IsDigit(t[k + 2])

\* the input is a literal in quotes q standing in the context c
InContext(c, q) ==
    /\ Len(input) >= Len(c[1]) + Len(c[2]) + 2
    /\ SubSeq(input, 1, Len(c[1])) = c[1]
    /\ SubSeq(input, Len(input) - Len(c[2]) + 1, Len(input)) = c[2]
    /\ input[Len(c[1]) + 1] = q
    /\ input[Len(input) - Len(c[2])] = q

PlainContexts == {c \in StringContexts : c[1] \in Spaces /\ c[2] \in Spaces}

C28_StrictDigitEscapes ==
    parsed.status # "pending" =>
        \A c \in StringContexts, q \in Quotes :
            InContext(c, q) =>
                LET from == Len(c[1]) + 1
                    to == Len(input) - Len(c[2])
                IN  \A k \in (from + 1)..(to - 1) :
                        /\ (/\ DigitEscapeAt(input, k)
                            /\ k + 1 < to
                            /\ IsStringBody(q, SubSeq(input, from + 1, k - 1)))
                           => ~parsed.success
                        /\ (/\ ZeroEscapeAt(input, k)
                            /\ k + 1 < to
                            /\ c \in PlainContexts
                            /\ IsStringBody(q, SubSeq(input, from + 1, k - 1))
                            /\ IsStringBody(q, SubSeq(input, k + 2, to - 1)))
                           => /\ parsed.success
                              /\ parsed.value.kind = "string"
                              /\ parsed.value.value.s
                                    = BodyValue(q, SubSeq(input, from + 1, k - 1))
                                      \o <<NUL>>
                                      \o BodyValue(q, SubSeq(input, k + 2, to - 1))

\* `a?'q\1':b` came back as a failure: the digit escape after an ordinary
\* character ended the parse from inside the optional branch of a conditional
C28_Witness ==
    /\ parsed.status = "returned" /\ ~parsed.success
    /\ input = <<"a", "?", SingleQuote, "q", Backslash, "1", SingleQuote, ":", "b">>
    /\ parsed.error.message = "strict mode: digit escapes are not allowed"

(***************************************************************************)
(* Reading a parse: the tree without its spans, and whether a rule takes   *)
(* the whole of a text.                                                    *)
(***************************************************************************)
RECURSIVE Strip(_)
RECURSIVE StripList(_)
Strip(e) ==
    CASE e.kind \in {"number", "string", "boolean"} -> [kind |-> e.kind, value |-> e.value]
      [] e.kind = "null" -> NullLit
      [] e.kind = "identifier" -> Identifier(e.name)
      [] e.kind = "array" -> ArrayLit(StripList(e.elements))
      [] e.kind = "unary" -> Unary(e.op, Strip(e.expr))
      [] e.kind = "binary" -> Binary(e.op, Strip(e.left), Strip(e.right))
      [] e.kind = "member" -> Member(Strip(e.object), e.property)
      [] e.kind = "call" -> Call(Strip(e.callee), StripList(e.args))
      [] e.kind = "conditional" ->
           Conditional(Strip(e.test), Strip(e.consequent), Strip(e.alternate))

StripList(es) == IF es = <<>> THEN <<>> ELSE <<Strip(Head(es))>> \o StripList(Tail(es))

\* the tree a text parses to
TreeOf(text) == Strip(s_File(text).value)

\* the result r of a rule applied at the start of the text takes all of it
Whole(r, text) == r.ok /\ r.index = Len(text)

ParsedTo(tree) == parsed.success /\ Strip(parsed.value) = tree

(***************************************************************************)
(* C24.  Pipeline desugaring: `a |> f` parses to the call f(a) and         *)
(* `a |> f(x, y)` to the call f(a, x, y): the left operand becomes the     *)
(* first argument and the other arguments keep their order.  Pipelines are *)
(* left-associative (`a |> f |> g` is g(f(a))) and bind looser than every  *)
(* binary operator (`1 + 2 |> inc` is inc(1 + 2)).                         *)
(***************************************************************************)
\* the call a pipeline stands for, from the trees of its two sides
PipedCall(l, r) ==
    IF r.kind = "call" THEN Call(r.callee, <<l>> \o r.args) ELSE Call(r, <<l>>)

\* `l |> r` for every l that is an expression and every r that is a
\* postfix expression, with the call it stands for
PipelineCases ==
    {[text |-> Join(<<x[1], x[3], Chars("|>"), x[3], x[2]>>),
      tree |-> PipedCall(TreeOf(x[1]), TreeOf(x[2]))] :
        x \in {y \in PipeLeft \X PipeRight \X Spaces :
                 /\ Whole(ExpressionLang("Pipeline", y[1], 0), y[1])
                 /\ Whole(ExpressionLang("Postfix", y[2], 0), y[2])}}

C24_PipelineDesugaring ==
    parsed.status # "pending" =>
        /\ \A c \in PipelineCases : input = c.text => ParsedTo(c.tree)
        /\ input = <<"a", "|", ">", "f">> => ParsedTo(Call(Id("f"), <<Id("a")>>))
        /\ input = <<"a", " ", "|", ">", " ", "f", "(", "x", ",", " ", "y", ")">>
           => ParsedTo(Call(Id("f"), <<Id("a"), Id("x"), Id("y")>>))
        /\ input = <<"a", "|", ">", "g", "|", ">", "f">>
           => ParsedTo(Call(Id("f"), <<Call(Id("g"), <<Id("a")>>)>>))
        /\ input = <<"1", " ", "+", " ", "2", " ", "|", ">", " ", "i", "n", "c">>
           => ParsedTo(Call(Id("inc"),
                            <<Binary("+", NumberLit(Num(1)), NumberLit(Num(2)))>>))
        /\ \A op \in BinaryOps :
              input = Join(<<<<"a">>, Chars(op), <<"b", "|", ">", "f", "(", "x", ")">>>>)
              => ParsedTo(Call(Id("f"), <<Binary(op, Id("a"), Id("b")), Id("x")>>))

\* `a|>g(x) |> f(x, y)` is f(g(a, x), x, y)
C24_Witness ==
    /\ input = <<"a", "|", ">", "g", "(", "x", ")", " ", "|", ">", " ",
                 "f", "(", "x", ",", " ", "y", ")">>
    /\ ParsedTo(Call(Id("f"), <<Call(Id("g"), <<Id("a"), Id("x")>>), Id("x"), Id("y")>>))

(***************************************************************************)
(* C25.  Precedence and associativity: the binary operators group by the   *)
(* levels `||` < `&&` < `== !=` < `< <= > >=` < `+ -` < `* / %` < unary    *)
(* prefix < postfix; operators of one level group to the left; the         *)
(* conditional is right-associative.  So in the tree of any text a         *)
(* tighter-binding operator is nested below a looser one.                  *)
(***************************************************************************)
Prec(op) ==
    CASE op = "||" -> 1
      [] op = "&&" -> 2
      [] op \in {"==", "!="} -> 3
      [] op \in {"<", "<=", ">", ">="} -> 4
      [] op \in {"+", "-"} -> 5
      [] op \in {"*", "/", "%"} -> 6

\* how tightly the operator at the root of a tree binds
Tightness(e) ==
    CASE e.kind = "conditional" -> 0
      [] e.kind = "binary" -> Prec(e.op)
      [] e.kind = "unary" -> 7
      [] OTHER -> 8

\* a postfix operator written after x
Postfixed(post, x) ==
    CASE post = <<".", "c">> -> Member(x, "c")
      [] post = <<"(", "c", ")">> -> Call(x, <<Id("c")>>)
      [] post = <<"(", ")">> -> Call(x, <<>>)

PostfixTexts == {<<".", "c">>, <<"(", "c", ")">>, <<"(", ")">>}

\* no operand of a node binds looser than the node lets it
WellNested(n) ==
    CASE n.kind = "binary" ->
           Tightness(n.left) >= Prec(n.op) /\ Tightness(n.right) > Prec(n.op)
      [] n.kind = "unary" -> Tightness(n.expr) >= 7
      [] n.kind = "member" -> Tightness(n.object) = 8
      [] n.kind = "call" -> Tightness(n.callee) = 8
      [] n.kind = "conditional" -> Tightness(n.test) >= 1
      [] OTHER -> TRUE

\* no character of the text is a parenthesis
Unparenthesized(t) == \A k \in 1..Len(t) : t[k] # "("

\* texts with the tree the levels give them
PrecedenceCases ==
    {[text |-> Join(<<<<"a">>, sp, Chars(op1), sp, <<"b">>, sp, Chars(op2), sp, <<"c">>>>),
      tree |-> IF Prec(op2) > Prec(op1)
               THEN Binary(op1, Id("a"), Binary(op2, Id("b"), Id("c")))
               ELSE Binary(op2, Binary(op1, Id("a"), Id("b")), Id("c"))] :
        op1 \in BinaryOps, op2 \in BinaryOps, sp \in Spaces}
    \cup {[text |-> Join(<<Chars(u), <<"a">>, Chars(op), <<"b">>>>),
           tree |-> Binary(op, Unary(u, Id("a")), Id("b"))] :
            u \in UnaryOps, op \in BinaryOps}
    \cup {[text |-> Join(<<<<"a">>, Chars(op), Chars(u), <<"b">>>>),
           tree |-> Binary(op, Id("a"), Unary(u, Id("b")))] :
            u \in UnaryOps, op \in BinaryOps}
    \cup {[text |-> Join(<<<<"a">>, Chars(op), <<"b">>, post>>),
           tree |-> Binary(op, Id("a"), Postfixed(post, Id("b")))] :
            op \in BinaryOps, post \in PostfixTexts}
    \cup {[text |-> Join(<<Chars(u), <<"a">>, post>>),
           tree |-> Unary(u, Postfixed(post, Id("a")))] :
            u \in UnaryOps, post \in PostfixTexts}
    \cup {[text |-> Join(<<Chars(u), Chars(v), <<"a">>>>),
           tree |-> Unary(u, Unary(v, Id("a")))] :
            u \in UnaryOps, v \in UnaryOps}
    \cup {[text |-> Join(<<<<"a", "?", "b", ":", "c">>, Chars(op), <<"d">>>>),
           tree |-> Conditional(Id("a"), Id("b"), Binary(op, Id("c"), Id("d")))] :
            op \in BinaryOps}
    \cup {[text |-> Join(<<<<"a">>, Chars(op), <<"b", "?", "c", ":", "d">>>>),
           tree |-> Conditional(Binary(op, Id("a"), Id("b")), Id("c"), Id("d"))] :
            op \in BinaryOps}
    \cup {[text |-> <<"a", "?", "b", ":", "c", "?", "d", ":", "e">>,
           tree |-> Conditional(Id("a"), Id("b"), Conditional(Id("c"), Id("d"), Id("e")))],
          [text |-> <<"a", "?", "b", "?", "c", ":", "d", ":", "e">>,
           tree |-> Conditional(Id("a"), Conditional(Id("b"), Id("c"), Id("d")), Id("e"))],
          [text |-> <<"a", " ", "-", " ", "b", " ", "-", " ", "c">>,
           tree |-> Binary("-", Binary("-", Id("a"), Id("b")), Id("c"))]}

C25_Precedence ==
    parsed.status # "pending" =>
        /\ \A c \in PrecedenceCases : input = c.text => ParsedTo(c.tree)
        /\ parsed.success /\ Unparenthesized(input)
           => \A n \in Nodes(parsed.value) : WellNested(n)

\* `1 + 2 * 3`: `+` at the root, `*` as its right operand
C25_Witness ==
    /\ input = <<"1", " ", "+", " ", "2", " ", "*", " ", "3">>
    /\ parsed.success
    /\ parsed.value.kind = "binary" /\ parsed.value.op = "+"
    /\ parsed.value.left.kind = "number"
    /\ parsed.value.right.kind = "binary" /\ parsed.value.right.op = "*"

(***************************************************************************)
(* C26.  Root span covers the expression: for every accepted input s,      *)
(* 0 <= span.start <= span.end <= len(s) and s[span.start .. span.end) is  *)
(* the whole expression text without its leading and trailing trivia, also *)
(* when the expression, or its leftmost or rightmost operand, is written   *)
(* in parentheses.                                                         *)
(***************************************************************************)
\* the span reaches from the first character after the leading trivia to
\* the last character before the trailing trivia
CoversExpression(span, t) ==
    /\ 0 <= span.start /\ span.start <= span.end /\ span.end <= Len(t)
    /\ span.start = trivia(t, 0)
    /\ span.start < span.end
    /\ trivia(t, span.end) = Len(t)
    /\ t[span.end] \notin Whitespace

C26_RootSpanCoversExpression ==
    parsed.success => CoversExpression(parsed.value.span, input)

\* what does hold: the span is within the input, and it covers the
\* expression when no parenthesis is written
C26_UnparenthesizedRootSpan ==
    parsed.success =>
        /\ 0 <= parsed.value.span.start
        /\ parsed.value.span.start <= parsed.value.span.end
        /\ parsed.value.span.end <= Len(input)
        /\ Unparenthesized(input) => CoversExpression(parsed.value.span, input)

(***************************************************************************)
(* C27.  Parse outcome: parseExpression succeeds only if the whole input   *)
(* is one expression, with trivia allowed around it, followed by the end   *)
(* of input: empty input, trivia alone and leftover non-trivia are         *)
(* failures.  Every failure carries a non-empty message and an index with  *)
(* 0 <= index <= len(input).  With throwOnError false the failure is       *)
(* returned, not thrown.                                                   *)
(***************************************************************************)
\* the one expression at the start of the input, after the leading trivia
LeadingExpression == ExpressionLang("Expression", input, trivia(input, 0))

C27_ParseOutcome ==
    parsed.status # "pending" =>
        /\ parsed.success <=> (LET e == LeadingExpression IN e.ok /\ e.index = Len(input))
        /\ trivia(input, 0) = Len(input) => ~parsed.success
        /\ parsed.success => parsed.status = "returned" /\ parsed.error = NoParseError
        /\ ~parsed.success =>
              /\ parsed.error.message # ""
              /\ 0 <= parsed.error.index /\ parsed.error.index <= Len(input)
              /\ parsed.value = NoNode
              /\ parsed.status = IF opts.throwOnError THEN "threw" ELSE "returned"

\* `a)`: an expression, then a parenthesis nothing opened; returned as a
\* failure at the parenthesis
C27_Witness ==
    /\ input = <<"a", ")">>
    /\ ~opts.throwOnError
    /\ parsed.status = "returned" /\ ~parsed.success
    /\ LeadingExpression.ok /\ LeadingExpression.index = 1
    /\ parsed.error.index = 1

(***************************************************************************)
(* C22.  Parse failures surfaced by evaluateExpression: when the input     *)
(* does not parse and throwOnParseError is false, evaluateExpression       *)
(* returns a failure whose error has the parser's message, the parse       *)
(* index, steps 0 and no span; nothing is evaluated; and this is so even   *)
(* when throwOnError is true: no exception is thrown for a parse failure.  *)
(***************************************************************************)
\* what parseExpression alone returns for the input
OwnParse == parseExpressionOf(input, FALSE)

NothingEvaluated ==
    /\ ast = NoNode /\ cur = NoNode /\ stack = <<>>
    /\ visits = <<>> /\ returns = <<>> /\ calls = <<>> /\ gets = 0
    /\ ctx.steps = 0

C22_ParseFailureSurfaced ==
    (pc # "expression" /\ ~opts.throwOnParseError /\ input \in RejectedTexts) =>
        /\ ~OwnParse.success
        /\ pc = "done"
        /\ result.status = "returned"
        /\ ~result.res.success
        /\ result.res.error.message = OwnParse.error.message
        /\ result.res.error.message # ""
        /\ result.res.error.index = OwnParse.error.index
        /\ result.res.error.index \in 0..Len(input)
        /\ result.res.error.steps = 0
        /\ result.res.error.span = NoSpan
        /\ NothingEvaluated

\* `(` with throwOnError true and throwOnParseError false: a failure is
\* returned, with the index of the end of the input
C22_Witness ==
    /\ input = <<"(">>
    /\ opts.throwOnError /\ ~opts.throwOnParseError
    /\ pc = "done"
    /\ result.status = "returned" /\ ~result.res.success
    /\ result.res.error.index = 1 /\ result.res.error.steps = 0

(***************************************************************************)
(* C21.  Non-throwing mode never throws: for every input string and every  *)
(* env, evaluateExpression called with throwOnError false and              *)
(* throwOnParseError false returns a result, a success or a failure with a *)
(* non-empty message, and raises no exception.                             *)
(***************************************************************************)
NonThrowingMode == ~opts.throwOnError /\ ~opts.throwOnParseError

ReturnedResult ==
    /\ result.status = "returned"
    /\ result.res.success \/ result.res.error.message # ""

C21_NonThrowingNeverThrows == (NonThrowingMode /\ pc = "done") => ReturnedResult

\* what does hold: with an env that has no accessor property
C21_DataEnvNeverThrows ==
    (NonThrowingMode /\ pc = "done" /\ ~ContainsAccessor(env)) => ReturnedResult

=============================================================================
